---- MODULE Spec2Model ----
(***************************************************************************)
(* Storage layer of the listings marketplace: the IStorage contract and    *)
(* its two implementations, DbStorage (PostgreSQL, with the foreign keys   *)
(* and unique indexes of the shared schema) and MemStorage (keyed maps).   *)
(* Exactly one backend is active in a process; `backend` records which.    *)
(***************************************************************************)
EXTENDS Integers, FiniteSets, Sequences, TLC

\* ---------------------------------------------------------------- bounds
MaxUsers == 2
MaxListings == 2
MaxCategories == 2
MaxFavorites == 2
MaxCalls == 2
MaxTime == 2
\* updateListing calls in progress at once
MaxUpdates == 1

\* ------------------------------------------------------- value encodings
\* JavaScript undefined / null for text fields; "" is the empty string.
UNDEF == "undefined"
NULL == "null"
\* an absent numeric argument (undefined userId)
NoId == 0 - 1
\* an absent item list (undefined items); a supplied one has at least one item
NoItems == <<>>
\* the number Infinity, and the JSON value null where a number is expected
Infinity == 0 - 1
NullNumber == 0 - 2

VARIABLES
    backend,            \* "mem" or "db": the implementation behind `storage`
    listings,           \* id -> Listing
    categories,         \* id -> Category
    users,              \* id -> User
    favorites,          \* id -> Favorite
    listingCategories,  \* set of <<listingId, categoryId>>
    listingCurrentId,   \* next listing id (MemStorage counter / serial)
    categoryCurrentId,
    userCurrentId,
    favoriteCurrentId,
    now,                \* the clock read by new Date() / defaultNow()
    calls,              \* slot -> handler suspended at an await
    last                \* observer: the call that completed most recently

vars == <<backend, listings, categories, users, favorites, listingCategories,
          listingCurrentId, categoryCurrentId, userCurrentId,
          favoriteCurrentId, now, calls, last>>

store == <<listings, categories, users, favorites, listingCategories,
           listingCurrentId, categoryCurrentId, userCurrentId,
           favoriteCurrentId>>

\* ------------------------------------------------------------ input sets
Emails == {"a@x", "b@x"}
Usernames == {"ann", "bob"}
Passwords == {"pw1", "pw2"}
Names == {"Eggs", "Honey"}
Salts == {1, 2}
\* item lists: one item, and two items of which one has a price that JSON
\* cannot write
Eggs == <<[name |-> "eggs", price |-> 3]>>
EggsAndJam == <<[name |-> "eggs", price |-> 3], [name |-> "jam", price |-> Infinity]>>

\* the users the relationship specifications register
BasicUsers == {[email |-> "a@x", username |-> "ann", password |-> "pw1", firstName |-> UNDEF],
               [email |-> "b@x", username |-> "bob", password |-> "pw2", firstName |-> UNDEF]}
\* every combination of identity fields
AllUsers == [email : Emails, username : Usernames, password : Passwords, firstName : {UNDEF}]

\* updateUser inputs that change the password, or nothing
PasswordUpdates == [email : {UNDEF}, username : {UNDEF}, password : Passwords \cup {UNDEF},
                    firstName : {UNDEF}]
\* createUser and updateUser inputs that differ in the identity fields
IdentityUsers == [email : Emails, username : Usernames, password : {"pw1"},
                  firstName : {UNDEF}]
IdentityUpdates == [email : Emails \cup {UNDEF}, username : Usernames \cup {UNDEF},
                    password : {UNDEF}, firstName : {UNDEF}]
\* updateCategory inputs that rename, or change nothing
NameUpdates == [name : Names \cup {UNDEF}, description : {UNDEF}]
\* create inputs with the optional fields set, and update inputs that
\* supply a value, null, an empty value or nothing for them
DescribedListings == [title : {"Fresh eggs"}, description : {"old"}, items : {Eggs},
                      userId : {1}]
ListingUpdates == [title : {UNDEF, "New title"}, description : {UNDEF, NULL, "new"},
                   items : {NoItems}, userId : {NoId}]
DescribedCategories == [name : {"Eggs"}, description : {"old"}]
CategoryUpdates == [name : {UNDEF}, description : {UNDEF, NULL, "new"}]
NamedUsers == [email : {"a@x"}, username : {"ann"}, password : {"pw1"},
               firstName : {"Ann"}]
UserUpdates == [email : {UNDEF}, username : {UNDEF}, password : {UNDEF, ""},
                firstName : {UNDEF, NULL, "Bea"}]
OneUser == {[email |-> "a@x", username |-> "ann", password |-> "pw1", firstName |-> UNDEF]}
OwnedListings == [title : {"Fresh eggs"}, description : {UNDEF}, items : {Eggs}, userId : {1}]
BasicListings == [title : {"Fresh eggs"}, description : {UNDEF}, items : {Eggs},
                  userId : 0..MaxUsers]
\* createListing inputs with one item and with several
ItemListings == [title : {"Fresh eggs"}, description : {UNDEF}, items : {Eggs, EggsAndJam},
                 userId : {1}]
\* updateListing inputs that supply several fields, one, or none; the owner
\* they name may not exist
SeveralFieldUpdates == [title : {UNDEF, "New title"}, description : {UNDEF, "new"},
                        items : {NoItems}, userId : {NoId, 2}]
\* updateListing inputs that change the owner, or nothing
OwnerUpdates == [title : {UNDEF}, description : {UNDEF}, items : {NoItems},
                 userId : {NoId} \cup (1..MaxUsers)]
BasicCategories == [name : Names, description : {UNDEF}]

\* ------------------------------------------------------- generic helpers
Put(f, k, v) == [x \in (DOMAIN f) \cup {k} |-> IF x = k THEN v ELSE f[x]]
Del(f, k) == [x \in (DOMAIN f) \ {k} |-> f[x]]
Min(S) == CHOOSE x \in S : \A y \in S : x <= y
Bool(b) == IF b THEN 1 ELSE 0

\* a || null
OrNull(v) == IF v \in {UNDEF, NULL, ""} THEN NULL ELSE v
\* a ?? b
Coalesce(v, old) == IF v \in {UNDEF, NULL} THEN old ELSE v
CoalesceId(v, old) == IF v = NoId THEN old ELSE v

\* the record a call returns when it returns none
NoRecord == [id |-> 0]
NoCall == [op |-> "none", a |-> 0, b |-> 0, s |-> "", t |-> "", upd |-> <<>>,
           ret |-> 0, rec |-> NoRecord, fresh |-> FALSE, list |-> <<>>, err |-> FALSE,
           rep |-> FALSE, dep |-> 0]
\* the user record a handler holds when it holds none
NoUser == [id |-> 0, email |-> "", username |-> "", passwordHash |-> <<0, 0>>,
           firstName |-> "", isVerified |-> FALSE, createdAt |-> 0]
Idle == [op |-> "idle", a |-> 0, b |-> 0, s |-> "", t |-> "", seen |-> 0,
         upd |-> <<>>, rec |-> NoUser]

\* The observer's record of a completed call: operation, numeric arguments a
\* and b, text arguments s and t, for an update the supplied fields upd,
\* returned value (an id, 1/0 for true/false, 0 for undefined/null, the
\* status of an HTTP response, the length of a returned list), the ids of a
\* returned list in its order, the listing a createListing or getListing
\* returned, for a getListing whether the call completed just before it was
\* the createListing that returned that listing, whether it threw, whether
\* it repeats the call
\* completed just before it (same operation and arguments), and for a delete
\* the number of dependent rows the entity had when the call started.
CompletedUpdate(op, a, b, s, t, upd, ret, err, dep) ==
    [op |-> op, a |-> a, b |-> b, s |-> s, t |-> t, upd |-> upd,
     ret |-> ret, rec |-> NoRecord, fresh |-> FALSE, list |-> <<>>, err |-> err,
     rep |-> (/\ last.op = op /\ last.a = a /\ last.b = b
              /\ last.s = s /\ last.t = t /\ last.upd = upd),
     dep |-> dep]
Completed(op, a, b, s, t, ret, err, dep) ==
    CompletedUpdate(op, a, b, s, t, <<>>, ret, err, dep)
\* an update of entity a with the supplied text fields upd (and userId b)
DoneUpdate(op, a, b, upd, ret, err) ==
    CompletedUpdate(op, a, b, upd[1], upd[2], upd, ret, err, 0)
\* a query about entity a that returned the ids list, in that order
DoneList(op, a, list) ==
    [CompletedUpdate(op, a, 0, "", "", <<>>, Len(list), FALSE, 0) EXCEPT !.list = list]
\* a call about entity a that returned the record rec, whose id is ret
DoneRecord(op, a, ret, rec) ==
    [CompletedUpdate(op, a, 0, "", "", <<>>, ret, FALSE, 0) EXCEPT !.rec = rec]
\* a getListing(id) that returned the listing rec
DoneGet(id, rec) ==
    [DoneRecord("getListing", id, id, rec) EXCEPT
        !.fresh = (last.op = "createListing" /\ ~last.err /\ last.ret = id)]
\* the text fields an update input supplies, in the order the code reads them
ListingFields(upd) == <<upd.title, upd.description>>
CategoryFields(upd) == <<upd.name, upd.description>>
UserFields(upd) == <<upd.email, upd.username, upd.password, upd.firstName>>
Done(op, a, b, s, ret, err) == Completed(op, a, b, s, "", ret, err, 0)
DoneDep(op, a, b, s, ret, err, dep) == Completed(op, a, b, s, "", ret, err, dep)
DoneText(op, a, s, t, ret, err) == Completed(op, a, 0, s, t, ret, err, 0)

\* ------------------------------------------------------------ credentials
PwCode(p) == CASE p = "" -> 0 [] p = "pw1" -> 1 [] p = "pw2" -> 2 [] OTHER -> 3
Digest(p, salt) == (PwCode(p) * 31 + salt * 17) % 97
\* bcryptjs hash(password, 10) with the salt it generated
hash(p, salt) == <<salt, Digest(p, salt)>>
compareAlwaysTrue(p, h) == TRUE
\* bcryptjs compare(password, passwordHash)
compare(p, h) == Digest(p, h[1]) = h[2]

\* ------------------------------------------------------- schema constraints
\* listings.user_id REFERENCES users(id)
FkUser(uid) == uid \in DOMAIN users
FkListingUnenforced(lid) == TRUE
\* favorites.listing_id / listing_categories.listing_id REFERENCES listings(id)
FkListing(lid) == lid \in DOMAIN listings
\* listing_categories.category_id REFERENCES categories(id)
FkCategory(cid) == cid \in DOMAIN categories
FavUniqueUnenforced(u, l) == TRUE
\* uniqueIndex favorites_user_listing_idx
FavUnique(u, l) == ~\E f \in DOMAIN favorites :
                      favorites[f].userId = u /\ favorites[f].listingId = l
\* uniqueIndex categories_name_idx (for the row `self` being written)
CategoryNameUnique(name, self) ==
    ~\E c \in DOMAIN categories : c # self /\ categories[c].name = name
\* uniqueIndex users_email_idx, users_username_idx
UserEmailUnique(email, self) ==
    ~\E u \in DOMAIN users : u # self /\ users[u].email = email
UserUsernameUnique(username, self) ==
    ~\E u \in DOMAIN users : u # self /\ users[u].username = username
\* ON DELETE CASCADE of favorites.listing_id
CascadeFavoritesOfListing(lid) ==
    [f \in {g \in DOMAIN favorites : favorites[g].listingId # lid} |-> favorites[f]]
\* ON DELETE CASCADE of listing_categories.listing_id
CascadeCategoriesOfListing(lid) == {p \in listingCategories : p[1] # lid}
CascadeListingsOfCategoryMissing(cid) == listingCategories
\* ON DELETE CASCADE of listing_categories.category_id, and the
\* forEach/delete loop of MemStorage.deleteCategory
CascadeListingsOfCategory(cid) == {p \in listingCategories : p[2] # cid}

\* rows that reference a listing / a category
DependentsOfListing(lid) ==
    Cardinality({f \in DOMAIN favorites : favorites[f].listingId = lid})
      + Cardinality({p \in listingCategories : p[1] = lid})
DependentsOfCategory(cid) == Cardinality({p \in listingCategories : p[2] = cid})

\* ---------------------------------------------------------------- queries
\* Object.values(this.favorites).find(...) / SELECT ... WHERE user_id, listing_id:
\* the id of the first match in key order, 0 when there is none
FindFavorite(u, l) ==
    LET m == {f \in DOMAIN favorites :
                favorites[f].userId = u /\ favorites[f].listingId = l}
    IN IF m = {} THEN 0 ELSE Min(m)
isFavorite(u, l) == \E f \in DOMAIN favorites :
                      favorites[f].userId = u /\ favorites[f].listingId = l
\* the listings getUserFavorites returns (as a set of ids): favorites of the
\* user whose listing row exists
getUserFavoritesIds(u) ==
    {favorites[f].listingId : f \in {g \in DOMAIN favorites : favorites[g].userId = u}}
        \cap DOMAIN listings
\* the orders in which n rows can be returned
Orderings(S) ==
    {q \in [1..Cardinality(S) -> S] : \A i, j \in 1..Cardinality(S) : q[i] = q[j] => i = j}
\* the favorites of user u that getUserFavorites turns into listings
UserFavoriteRows(u) ==
    {f \in DOMAIN favorites :
        favorites[f].userId = u /\ favorites[f].listingId \in DOMAIN listings}
\* DbStorage.getUserFavorites: JOIN ... ORDER BY f.created_at DESC; rows of
\* equal created_at come in any order
DbFavoriteOrders(u) ==
    {[i \in 1..Cardinality(UserFavoriteRows(u)) |-> favorites[q[i]].listingId] :
        q \in {r \in Orderings(UserFavoriteRows(u)) :
                 \A i, j \in 1..Cardinality(UserFavoriteRows(u)) :
                    i < j => favorites[r[i]].createdAt >= favorites[r[j]].createdAt}}
\* MemStorage.getUserFavorites: the favorites in key order, mapped to their
\* listings, then sorted by the listing's createdAt, newest first (the sort
\* is stable)
MemFavoriteOrders(u) ==
    {[i \in 1..Cardinality(UserFavoriteRows(u)) |-> favorites[q[i]].listingId] :
        q \in {r \in Orderings(UserFavoriteRows(u)) :
                 \A i, j \in 1..Cardinality(UserFavoriteRows(u)) :
                    i < j =>
                      \/ listings[favorites[r[i]].listingId].createdAt
                            > listings[favorites[r[j]].listingId].createdAt
                      \/ /\ listings[favorites[r[i]].listingId].createdAt
                            = listings[favorites[r[j]].listingId].createdAt
                         /\ r[i] < r[j]}}
\* listing ids in an order that puts the later created first; listings of
\* equal createdAt come in any order (ORDER BY l.created_at DESC, and the
\* sort of MemStorage, which keeps them in the order their associations
\* were inserted)
NewestFirst(ids) ==
    {q \in Orderings(ids) :
        \A i, j \in 1..Cardinality(ids) :
            i < j => listings[q[i]].createdAt >= listings[q[j]].createdAt}
\* the position of a name in the order of a.name.localeCompare(b.name) and
\* of ORDER BY name ASC
NameRank(name) == CASE name = "Eggs" -> 1 [] name = "Honey" -> 2 [] OTHER -> 3
\* category ids in ascending order of name; categories of equal name come
\* in any order
ByName(ids) ==
    {q \in Orderings(ids) :
        \A i, j \in 1..Cardinality(ids) :
            i < j => NameRank(categories[q[i]].name) <= NameRank(categories[q[j]].name)}
\* Object.values(this.categories).sort(...): the categories in key order,
\* sorted by name (the sort is stable)
ByNameThenId(ids) ==
    {q \in ByName(ids) :
        \A i, j \in 1..Cardinality(ids) :
            (i < j /\ categories[q[i]].name = categories[q[j]].name) => q[i] < q[j]}
\* the categories getListingCategories returns (as a set of ids)
getListingCategoriesIds(lid) ==
    {p[2] : p \in {q \in listingCategories : q[1] = lid}} \cap DOMAIN categories
\* the listings getCategoryListings returns (as a set of ids)
getCategoryListingsIds(cid) ==
    {p[1] : p \in {q \in listingCategories : q[2] = cid}} \cap DOMAIN listings
\* getCategoryByName: id of the first category with the name, 0 when none
getCategoryByName(name) ==
    LET m == {c \in DOMAIN categories : categories[c].name = name}
    IN IF m = {} THEN 0 ELSE Min(m)
\* getUserByEmail / getUserByUsername: id of the first match, 0 when none
getUserByEmail(email) ==
    LET m == {u \in DOMAIN users : users[u].email = email}
    IN IF m = {} THEN 0 ELSE Min(m)
getUserByUsername(username) ==
    LET m == {u \in DOMAIN users : users[u].username = username}
    IN IF m = {} THEN 0 ELSE Min(m)

\* ------------------------------------------------------------------- Init
Init ==
    /\ backend \in {"mem", "db"}
    /\ listings = <<>>
    /\ categories = <<>>
    /\ users = <<>>
    /\ favorites = <<>>
    /\ listingCategories = {}
    /\ listingCurrentId = 1
    /\ categoryCurrentId = 1
    /\ userCurrentId = 1
    /\ favoriteCurrentId = 1
    /\ now = 0
    /\ calls = [p \in 1..MaxCalls |-> Idle]
    /\ last = NoCall

\* ------------------------------------------------------------ record types
Listing(id, d) ==
    [id |-> id, title |-> d.title, description |-> OrNull(d.description),
     items |-> d.items, createdAt |-> now, userId |-> d.userId]
\* JSON.stringify of a number: Infinity is written as null
JsonNumber(n) == IF n = Infinity THEN NullNumber ELSE n
\* the value the jsonb column items holds, and the driver parses back, for
\* the text JSON.stringify(items)
JsonItems(items) ==
    [i \in 1..Len(items) |->
        [name |-> items[i].name, price |-> JsonNumber(items[i].price)]]
\* the row INSERT INTO listings ... RETURNING * stores and returns
ListingRow(id, d) == [Listing(id, d) EXCEPT !.items = JsonItems(d.items)]
Category(id, d) ==
    [id |-> id, name |-> d.name, description |-> OrNull(d.description),
     createdAt |-> now]
User(id, d, salt) ==
    [id |-> id, email |-> d.email, username |-> d.username,
     passwordHash |-> hash(d.password, salt),
     firstName |-> OrNull(d.firstName), isVerified |-> FALSE, createdAt |-> now]
Favorite(id, u, l) == [id |-> id, userId |-> u, listingId |-> l, createdAt |-> now]

\* ============================================================== MemStorage
\* createListing without its test of listingData.userId
MemCreateListingUnchecked(d) ==
    /\ backend = "mem"
    /\ listingCurrentId <= MaxListings
    /\ listings' = Put(listings, listingCurrentId, Listing(listingCurrentId, d))
    /\ listingCurrentId' = listingCurrentId + 1
    /\ last' = DoneRecord("createListing", d.userId, listingCurrentId,
                          Listing(listingCurrentId, d))
    /\ UNCHANGED <<backend, categories, users, favorites, listingCategories,
                   categoryCurrentId, userCurrentId, favoriteCurrentId, now, calls>>

\* createListing numbering the listing by the count of stored listings
MemCreateListingCounted(d) ==
    /\ IF d.userId <= 0
       THEN /\ last' = Done("createListing", d.userId, 0, "", 0, TRUE)
            /\ UNCHANGED <<listings, listingCurrentId>>
       ELSE LET id == Cardinality(DOMAIN listings) + 1
            IN /\ id <= MaxListings
               /\ listings' = Put(listings, id, Listing(id, d))
               /\ listingCurrentId' = id + 1
               /\ last' = DoneRecord("createListing", d.userId, id, Listing(id, d))
    /\ UNCHANGED <<backend, categories, users, favorites, listingCategories,
                   categoryCurrentId, userCurrentId, favoriteCurrentId, now, calls>>

\* what the call does to the store and returns, whatever storage is in use
MemCreateListingEffect(d) ==
    /\ IF d.userId <= 0
       THEN /\ last' = Done("createListing", d.userId, 0, "", 0, TRUE)
            /\ UNCHANGED <<listings, listingCurrentId>>
       ELSE /\ listingCurrentId <= MaxListings
            /\ listings' = Put(listings, listingCurrentId, Listing(listingCurrentId, d))
            /\ listingCurrentId' = listingCurrentId + 1
            /\ last' = DoneRecord("createListing", d.userId, listingCurrentId,
                                  Listing(listingCurrentId, d))
    /\ UNCHANGED <<backend, categories, users, favorites, listingCategories,
                   categoryCurrentId, userCurrentId, favoriteCurrentId, now, calls>>

MemCreateListing(d) == backend = "mem" /\ MemCreateListingEffect(d)

\* what the call does to the store and returns, whatever storage is in use
MemDeleteListingEffect(id) ==
    /\ IF id \in DOMAIN listings
       THEN /\ listings' = Del(listings, id)
            /\ last' = DoneDep("deleteListing", id, 0, "", 1, FALSE, DependentsOfListing(id))
       ELSE /\ UNCHANGED listings
            /\ last' = Done("deleteListing", id, 0, "", 0, FALSE)
    /\ UNCHANGED <<backend, categories, users, favorites, listingCategories,
                   listingCurrentId, categoryCurrentId, userCurrentId,
                   favoriteCurrentId, now, calls>>

MemDeleteListing(id) == backend = "mem" /\ MemDeleteListingEffect(id)

\* createCategory, leaving the suspended handlers to the caller
\* what the call does to the store and returns, whatever storage is in use
MemCreateCategoryEffect(d) ==
    /\ categoryCurrentId <= MaxCategories
    /\ categories' = Put(categories, categoryCurrentId, Category(categoryCurrentId, d))
    /\ categoryCurrentId' = categoryCurrentId + 1
    /\ last' = Done("createCategory", 0, 0, d.name, categoryCurrentId, FALSE)
    /\ UNCHANGED <<backend, listings, users, favorites, listingCategories,
                   listingCurrentId, userCurrentId, favoriteCurrentId, now>>

MemCreateCategoryDo(d) == backend = "mem" /\ MemCreateCategoryEffect(d)

MemCreateCategory(d) == MemCreateCategoryDo(d) /\ UNCHANGED calls

\* what the call does to the store and returns, whatever storage is in use
MemDeleteCategoryEffect(id) ==
    /\ IF id \in DOMAIN categories
       THEN /\ categories' = Del(categories, id)
            /\ listingCategories' = CascadeListingsOfCategory(id)
            /\ last' = DoneDep("deleteCategory", id, 0, "", 1, FALSE, DependentsOfCategory(id))
       ELSE /\ UNCHANGED <<categories, listingCategories>>
            /\ last' = Done("deleteCategory", id, 0, "", 0, FALSE)
    /\ UNCHANGED <<backend, listings, users, favorites, listingCurrentId,
                   categoryCurrentId, userCurrentId, favoriteCurrentId, now, calls>>

MemDeleteCategory(id) == backend = "mem" /\ MemDeleteCategoryEffect(id)

\* what the call does to the store and returns, whatever storage is in use
MemAddCategoryToListingEffect(listingId, categoryId) ==
    /\ listingCategories' =
         IF listingId \in DOMAIN listings /\ categoryId \in DOMAIN categories
         THEN listingCategories \cup {<<listingId, categoryId>>}
         ELSE listingCategories
    /\ last' = Done("addCategoryToListing", listingId, categoryId, "", 0, FALSE)
    /\ UNCHANGED <<backend, listings, categories, users, favorites,
                   listingCurrentId, categoryCurrentId, userCurrentId,
                   favoriteCurrentId, now, calls>>

MemAddCategoryToListing(listingId, categoryId) == backend = "mem" /\ MemAddCategoryToListingEffect(listingId, categoryId)

\* removeCategoryFromListing deleting every association of the listing
MemRemoveCategoryFromListingAll(listingId, categoryId) ==
    /\ listingCategories' = {r \in listingCategories : r[1] # listingId}
    /\ last' = Done("removeCategoryFromListing", listingId, categoryId, "", 0, FALSE)
    /\ UNCHANGED <<backend, listings, categories, users, favorites,
                   listingCurrentId, categoryCurrentId, userCurrentId,
                   favoriteCurrentId, now, calls>>

\* what the call does to the store and returns, whatever storage is in use
MemRemoveCategoryFromListingEffect(listingId, categoryId) ==
    /\ listingCategories' = listingCategories \ {<<listingId, categoryId>>}
    /\ last' = Done("removeCategoryFromListing", listingId, categoryId, "", 0, FALSE)
    /\ UNCHANGED <<backend, listings, categories, users, favorites,
                   listingCurrentId, categoryCurrentId, userCurrentId,
                   favoriteCurrentId, now, calls>>

MemRemoveCategoryFromListing(listingId, categoryId) == backend = "mem" /\ MemRemoveCategoryFromListingEffect(listingId, categoryId)

MemAddFavoriteNoLookup(userId, listingId) ==
    /\ backend = "mem"
    /\ IF userId \notin DOMAIN users \/ listingId \notin DOMAIN listings
       THEN /\ last' = Done("addFavorite", userId, listingId, "", 0, TRUE)
            /\ UNCHANGED <<favorites, favoriteCurrentId>>
       ELSE /\ favoriteCurrentId <= MaxFavorites
            /\ favorites' = Put(favorites, favoriteCurrentId,
                                Favorite(favoriteCurrentId, userId, listingId))
            /\ favoriteCurrentId' = favoriteCurrentId + 1
            /\ last' = Done("addFavorite", userId, listingId, "", favoriteCurrentId, FALSE)
    /\ UNCHANGED <<backend, listings, categories, users, listingCategories,
                   listingCurrentId, categoryCurrentId, userCurrentId, now, calls>>

MemAddFavorite(userId, listingId) ==
    /\ backend = "mem"
    /\ IF userId \notin DOMAIN users \/ listingId \notin DOMAIN listings
       THEN /\ last' = Done("addFavorite", userId, listingId, "", 0, TRUE)
            /\ UNCHANGED <<favorites, favoriteCurrentId>>
       ELSE IF FindFavorite(userId, listingId) # 0
       THEN /\ last' = Done("addFavorite", userId, listingId, "",
                            FindFavorite(userId, listingId), FALSE)
            /\ UNCHANGED <<favorites, favoriteCurrentId>>
       ELSE /\ favoriteCurrentId <= MaxFavorites
            /\ favorites' = Put(favorites, favoriteCurrentId,
                                Favorite(favoriteCurrentId, userId, listingId))
            /\ favoriteCurrentId' = favoriteCurrentId + 1
            /\ last' = Done("addFavorite", userId, listingId, "", favoriteCurrentId, FALSE)
    /\ UNCHANGED <<backend, listings, categories, users, listingCategories,
                   listingCurrentId, categoryCurrentId, userCurrentId, now, calls>>

\* removeFavorite without its delete
MemRemoveFavoriteKeepsRow(userId, listingId) ==
    /\ backend = "mem"
    /\ last' = Done("removeFavorite", userId, listingId, "",
                    Bool(FindFavorite(userId, listingId) # 0), FALSE)
    /\ UNCHANGED <<backend, listings, categories, users, favorites, listingCategories,
                   listingCurrentId, categoryCurrentId, userCurrentId,
                   favoriteCurrentId, now, calls>>

MemRemoveFavorite(userId, listingId) ==
    /\ backend = "mem"
    /\ IF FindFavorite(userId, listingId) # 0
       THEN /\ favorites' = Del(favorites, FindFavorite(userId, listingId))
            /\ last' = Done("removeFavorite", userId, listingId, "", 1, FALSE)
       ELSE /\ UNCHANGED favorites
            /\ last' = Done("removeFavorite", userId, listingId, "", 0, FALSE)
    /\ UNCHANGED <<backend, listings, categories, users, listingCategories,
                   listingCurrentId, categoryCurrentId, userCurrentId,
                   favoriteCurrentId, now, calls>>

\* createUser run without another call between its id++ and its write,
\* leaving the suspended handlers to the caller
\* what the call does to the store and returns, whatever storage is in use
MemCreateUserEffect(d, salt) ==
    /\ userCurrentId <= MaxUsers
    /\ users' = Put(users, userCurrentId, User(userCurrentId, d, salt))
    /\ userCurrentId' = userCurrentId + 1
    /\ last' = DoneText("createUser", 0, d.email, d.username, userCurrentId, FALSE)
    /\ UNCHANGED <<backend, listings, categories, favorites, listingCategories,
                   listingCurrentId, categoryCurrentId, favoriteCurrentId, now>>

MemCreateUserDo(d, salt) == backend = "mem" /\ MemCreateUserEffect(d, salt)

MemCreateUser(d, salt) == MemCreateUserDo(d, salt) /\ UNCHANGED calls

\* updateUser run without another call between its read and its write,
\* leaving the suspended handlers to the caller
MemUpdateUserDo(id, upd, salt) ==
    /\ backend = "mem"
    /\ IF id \in DOMAIN users
       THEN /\ users' = Put(users, id,
                  [users[id] EXCEPT
                     !.email = Coalesce(upd.email, users[id].email),
                     !.username = Coalesce(upd.username, users[id].username),
                     !.firstName = Coalesce(upd.firstName, users[id].firstName),
                     !.passwordHash = IF upd.password \in {UNDEF, NULL, ""}
                                      THEN users[id].passwordHash
                                      ELSE hash(upd.password, salt)])
            /\ last' = DoneUpdate("updateUser", id, 0, UserFields(upd), id, FALSE)
       ELSE /\ UNCHANGED users
            /\ last' = DoneUpdate("updateUser", id, 0, UserFields(upd), 0, FALSE)
    /\ UNCHANGED <<backend, listings, categories, favorites, listingCategories,
                   listingCurrentId, categoryCurrentId, userCurrentId,
                   favoriteCurrentId, now>>

MemUpdateUser(id, upd, salt) == MemUpdateUserDo(id, upd, salt) /\ UNCHANGED calls

\* verifyUser without its assignment of isVerified
MemVerifyUserFlagUnset(email) ==
    /\ backend = "mem"
    /\ last' = Done("verifyUser", getUserByEmail(email), 0, email,
                    Bool(getUserByEmail(email) # 0), FALSE)
    /\ UNCHANGED <<backend, listings, categories, users, favorites, listingCategories,
                   listingCurrentId, categoryCurrentId, userCurrentId,
                   favoriteCurrentId, now, calls>>

\* verifyUser run without another call between its lookup and its assignment
MemVerifyUser(email) ==
    /\ backend = "mem"
    /\ LET user == getUserByEmail(email)
       IN IF user = 0
          THEN /\ UNCHANGED users
               /\ last' = Done("verifyUser", 0, 0, email, 0, FALSE)
          ELSE /\ users' = [users EXCEPT ![user].isVerified = TRUE]
               /\ last' = Done("verifyUser", user, 0, email, 1, FALSE)
    /\ UNCHANGED <<backend, listings, categories, favorites, listingCategories,
                   listingCurrentId, categoryCurrentId, userCurrentId,
                   favoriteCurrentId, now, calls>>

MemValidatePassword(email, password) ==
    /\ backend = "mem"
    /\ LET user == getUserByEmail(email)
       IN last' = DoneText("validatePassword", 0, email, password,
                    IF user = 0 THEN 0
                    ELSE IF ~compare(password, users[user].passwordHash) THEN 0
                    ELSE user,
                    FALSE)
    /\ UNCHANGED <<backend, listings, categories, users, favorites, listingCategories,
                   listingCurrentId, categoryCurrentId, userCurrentId,
                   favoriteCurrentId, now, calls>>


\* updateListing without its test of the listing it read: reading a field
\* of undefined throws
MemUpdateListingUnchecked(id, upd) ==
    /\ backend = "mem"
    /\ IF id \in DOMAIN listings
       THEN /\ listings' = Put(listings, id,
                  [id |-> listings[id].id,
                   title |-> Coalesce(upd.title, listings[id].title),
                   description |-> Coalesce(upd.description, listings[id].description),
                   items |-> IF upd.items = NoItems THEN listings[id].items
                             ELSE upd.items,
                   createdAt |-> listings[id].createdAt,
                   userId |-> CoalesceId(upd.userId, listings[id].userId)])
            /\ last' = DoneUpdate("updateListing", id, upd.userId, ListingFields(upd), id, FALSE)
       ELSE /\ UNCHANGED listings
            /\ last' = DoneUpdate("updateListing", id, upd.userId, ListingFields(upd), 0, TRUE)
    /\ UNCHANGED <<backend, categories, users, favorites, listingCategories,
                   listingCurrentId, categoryCurrentId, userCurrentId,
                   favoriteCurrentId, now, calls>>

MemUpdateListing(id, upd) ==
    /\ backend = "mem"
    /\ IF id \in DOMAIN listings
       THEN /\ listings' = Put(listings, id,
                  [id |-> listings[id].id,
                   title |-> Coalesce(upd.title, listings[id].title),
                   description |-> Coalesce(upd.description, listings[id].description),
                   items |-> IF upd.items = NoItems THEN listings[id].items
                             ELSE upd.items,
                   createdAt |-> listings[id].createdAt,
                   userId |-> CoalesceId(upd.userId, listings[id].userId)])
            /\ last' = DoneUpdate("updateListing", id, upd.userId, ListingFields(upd), id, FALSE)
       ELSE /\ UNCHANGED listings
            /\ last' = DoneUpdate("updateListing", id, upd.userId, ListingFields(upd), 0, FALSE)
    /\ UNCHANGED <<backend, categories, users, favorites, listingCategories,
                   listingCurrentId, categoryCurrentId, userCurrentId,
                   favoriteCurrentId, now, calls>>

\* updateCategory, leaving the suspended handlers to the caller
MemUpdateCategoryDo(id, upd) ==
    /\ backend = "mem"
    /\ IF id \in DOMAIN categories
       THEN /\ categories' = Put(categories, id,
                  [id |-> categories[id].id,
                   name |-> Coalesce(upd.name, categories[id].name),
                   description |-> Coalesce(upd.description, categories[id].description),
                   createdAt |-> categories[id].createdAt])
            /\ last' = DoneUpdate("updateCategory", id, 0, CategoryFields(upd), id, FALSE)
       ELSE /\ UNCHANGED categories
            /\ last' = DoneUpdate("updateCategory", id, 0, CategoryFields(upd), 0, FALSE)
    /\ UNCHANGED <<backend, listings, users, favorites, listingCategories,
                   listingCurrentId, categoryCurrentId, userCurrentId,
                   favoriteCurrentId, now>>

MemUpdateCategory(id, upd) == MemUpdateCategoryDo(id, upd) /\ UNCHANGED calls

\* getListing, getCategory, getUserById: this.listings[id] and the like
MemGetListing(id) ==
    /\ backend = "mem"
    /\ last' = IF id \in DOMAIN listings
               THEN DoneGet(id, listings[id])
               ELSE Done("getListing", id, 0, "", 0, FALSE)
    /\ UNCHANGED <<backend, store, now, calls>>

MemGetCategory(id) ==
    /\ backend = "mem"
    /\ last' = Done("getCategory", id, 0, "", IF id \in DOMAIN categories THEN id ELSE 0,
                    FALSE)
    /\ UNCHANGED <<backend, store, now, calls>>

MemGetUserById(id) ==
    /\ backend = "mem"
    /\ last' = Done("getUserById", id, 0, "", IF id \in DOMAIN users THEN id ELSE 0, FALSE)
    /\ UNCHANGED <<backend, store, now, calls>>

\* =============================================================== DbStorage
\* getListing, getCategory, getUserById: SELECT * ... WHERE id = ..., and
\* undefined when no row comes back
DbGetListing(id) ==
    /\ backend = "db"
    /\ last' = IF id \in DOMAIN listings
               THEN DoneGet(id, listings[id])
               ELSE Done("getListing", id, 0, "", 0, FALSE)
    /\ UNCHANGED <<backend, store, now, calls>>

DbGetCategory(id) ==
    /\ backend = "db"
    /\ last' = Done("getCategory", id, 0, "", IF id \in DOMAIN categories THEN id ELSE 0,
                    FALSE)
    /\ UNCHANGED <<backend, store, now, calls>>

DbGetUserById(id) ==
    /\ backend = "db"
    /\ last' = Done("getUserById", id, 0, "", IF id \in DOMAIN users THEN id ELSE 0, FALSE)
    /\ UNCHANGED <<backend, store, now, calls>>

\* createListing returning the fields of its argument instead of the row
DbCreateListingReturnsInput(d) ==
    /\ backend = "db"
    /\ IF d.userId <= 0
       THEN /\ last' = Done("createListing", d.userId, 0, "", 0, TRUE)
            /\ UNCHANGED <<listings, listingCurrentId>>
       ELSE /\ listingCurrentId <= MaxListings
            /\ listingCurrentId' = listingCurrentId + 1
            /\ IF FkUser(d.userId)
               THEN /\ listings' = Put(listings, listingCurrentId,
                                       ListingRow(listingCurrentId, d))
                    /\ last' = DoneRecord("createListing", d.userId, listingCurrentId,
                                          Listing(listingCurrentId, d))
               ELSE /\ UNCHANGED listings
                    /\ last' = Done("createListing", d.userId, 0, "", 0, TRUE)
    /\ UNCHANGED <<backend, categories, users, favorites, listingCategories,
                   categoryCurrentId, userCurrentId, favoriteCurrentId, now, calls>>

\* A failed INSERT has already drawn its id from the serial sequence.
DbCreateListing(d) ==
    /\ backend = "db"
    /\ IF d.userId <= 0
       THEN /\ last' = Done("createListing", d.userId, 0, "", 0, TRUE)
            /\ UNCHANGED <<listings, listingCurrentId>>
       ELSE /\ listingCurrentId <= MaxListings
            /\ listingCurrentId' = listingCurrentId + 1
            /\ IF FkUser(d.userId)
               THEN /\ listings' = Put(listings, listingCurrentId,
                                       ListingRow(listingCurrentId, d))
                    /\ last' = DoneRecord("createListing", d.userId, listingCurrentId,
                                          ListingRow(listingCurrentId, d))
               ELSE /\ UNCHANGED listings
                    /\ last' = Done("createListing", d.userId, 0, "", 0, TRUE)
    /\ UNCHANGED <<backend, categories, users, favorites, listingCategories,
                   categoryCurrentId, userCurrentId, favoriteCurrentId, now, calls>>

DbDeleteListing(id) ==
    /\ backend = "db"
    /\ IF id \in DOMAIN listings
       THEN /\ listings' = Del(listings, id)
            /\ favorites' = CascadeFavoritesOfListing(id)
            /\ listingCategories' = CascadeCategoriesOfListing(id)
            /\ last' = DoneDep("deleteListing", id, 0, "", 1, FALSE, DependentsOfListing(id))
       ELSE /\ UNCHANGED <<listings, favorites, listingCategories>>
            /\ last' = Done("deleteListing", id, 0, "", 0, FALSE)
    /\ UNCHANGED <<backend, categories, users, listingCurrentId,
                   categoryCurrentId, userCurrentId, favoriteCurrentId, now, calls>>

\* createCategory, leaving the suspended handlers to the caller
DbCreateCategoryDo(d) ==
    /\ backend = "db"
    /\ categoryCurrentId <= MaxCategories
    /\ categoryCurrentId' = categoryCurrentId + 1
    /\ IF CategoryNameUnique(d.name, categoryCurrentId)
       THEN /\ categories' = Put(categories, categoryCurrentId,
                                 Category(categoryCurrentId, d))
            /\ last' = Done("createCategory", 0, 0, d.name, categoryCurrentId, FALSE)
       ELSE /\ UNCHANGED categories
            /\ last' = Done("createCategory", 0, 0, d.name, 0, TRUE)
    /\ UNCHANGED <<backend, listings, users, favorites, listingCategories,
                   listingCurrentId, userCurrentId, favoriteCurrentId, now>>

DbCreateCategory(d) == DbCreateCategoryDo(d) /\ UNCHANGED calls

DbDeleteCategory(id) ==
    /\ backend = "db"
    /\ IF id \in DOMAIN categories
       THEN /\ categories' = Del(categories, id)
            /\ listingCategories' = CascadeListingsOfCategory(id)
            /\ last' = DoneDep("deleteCategory", id, 0, "", 1, FALSE, DependentsOfCategory(id))
       ELSE /\ UNCHANGED <<categories, listingCategories>>
            /\ last' = Done("deleteCategory", id, 0, "", 0, FALSE)
    /\ UNCHANGED <<backend, listings, users, favorites, listingCurrentId,
                   categoryCurrentId, userCurrentId, favoriteCurrentId, now, calls>>

\* the INSERT of addCategoryToListing, after its SELECT found `seen` rows
DbAddCategoryToListingInsert(listingId, categoryId, seen) ==
    /\ IF seen # 0
       THEN /\ UNCHANGED listingCategories
            /\ last' = Done("addCategoryToListing", listingId, categoryId, "", 0, FALSE)
       ELSE IF /\ FkListing(listingId)
               /\ FkCategory(categoryId)
               /\ <<listingId, categoryId>> \notin listingCategories
       THEN /\ listingCategories' = listingCategories \cup {<<listingId, categoryId>>}
            /\ last' = Done("addCategoryToListing", listingId, categoryId, "", 0, FALSE)
       ELSE /\ UNCHANGED listingCategories
            /\ last' = Done("addCategoryToListing", listingId, categoryId, "", 0, TRUE)
    /\ UNCHANGED <<backend, listings, categories, users, favorites,
                   listingCurrentId, categoryCurrentId, userCurrentId,
                   favoriteCurrentId, now>>

\* addCategoryToListing without its SELECT
DbAddCategoryToListingNoSelect(listingId, categoryId) ==
    /\ backend = "db"
    /\ DbAddCategoryToListingInsert(listingId, categoryId, 0)
    /\ UNCHANGED calls

\* addCategoryToListing run without another statement between its two
DbAddCategoryToListing(listingId, categoryId) ==
    /\ backend = "db"
    /\ DbAddCategoryToListingInsert(listingId, categoryId,
            Bool(<<listingId, categoryId>> \in listingCategories))
    /\ UNCHANGED calls

DbRemoveCategoryFromListing(listingId, categoryId) ==
    /\ backend = "db"
    /\ listingCategories' = listingCategories \ {<<listingId, categoryId>>}
    /\ last' = Done("removeCategoryFromListing", listingId, categoryId, "", 0, FALSE)
    /\ UNCHANGED <<backend, listings, categories, users, favorites,
                   listingCurrentId, categoryCurrentId, userCurrentId,
                   favoriteCurrentId, now, calls>>

\* the second half of addFavorite, after its SELECT returned the favorite
\* `seen` (0: no row): return that row, or INSERT ... RETURNING *
DbAddFavoriteInsert(userId, listingId, seen) ==
    /\ IF seen # 0
       THEN /\ UNCHANGED <<favorites, favoriteCurrentId>>
            /\ last' = Done("addFavorite", userId, listingId, "", seen, FALSE)
       ELSE /\ favoriteCurrentId <= MaxFavorites
            /\ favoriteCurrentId' = favoriteCurrentId + 1
            /\ IF FkUser(userId) /\ FkListing(listingId) /\ FavUnique(userId, listingId)
               THEN /\ favorites' = Put(favorites, favoriteCurrentId,
                                        Favorite(favoriteCurrentId, userId, listingId))
                    /\ last' = Done("addFavorite", userId, listingId, "",
                                    favoriteCurrentId, FALSE)
               ELSE /\ UNCHANGED favorites
                    /\ last' = Done("addFavorite", userId, listingId, "", 0, TRUE)
    /\ UNCHANGED <<backend, listings, categories, users, listingCategories,
                   listingCurrentId, categoryCurrentId, userCurrentId, now>>

\* addFavorite run without another statement between its two
DbAddFavorite(userId, listingId) ==
    /\ backend = "db"
    /\ DbAddFavoriteInsert(userId, listingId, FindFavorite(userId, listingId))
    /\ UNCHANGED calls

DbRemoveFavorite(userId, listingId) ==
    /\ backend = "db"
    /\ IF FindFavorite(userId, listingId) # 0
       THEN /\ favorites' = Del(favorites, FindFavorite(userId, listingId))
            /\ last' = Done("removeFavorite", userId, listingId, "", 1, FALSE)
       ELSE /\ UNCHANGED favorites
            /\ last' = Done("removeFavorite", userId, listingId, "", 0, FALSE)
    /\ UNCHANGED <<backend, listings, categories, users, listingCategories,
                   listingCurrentId, categoryCurrentId, userCurrentId,
                   favoriteCurrentId, now, calls>>

\* createUser, leaving the suspended handlers to the caller
DbCreateUserDo(d, salt) ==
    /\ backend = "db"
    /\ userCurrentId <= MaxUsers
    /\ userCurrentId' = userCurrentId + 1
    /\ IF UserEmailUnique(d.email, userCurrentId)
          /\ UserUsernameUnique(d.username, userCurrentId)
       THEN /\ users' = Put(users, userCurrentId, User(userCurrentId, d, salt))
            /\ last' = DoneText("createUser", 0, d.email, d.username, userCurrentId, FALSE)
       ELSE /\ UNCHANGED users
            /\ last' = DoneText("createUser", 0, d.email, d.username, 0, TRUE)
    /\ UNCHANGED <<backend, listings, categories, favorites, listingCategories,
                   listingCurrentId, categoryCurrentId, favoriteCurrentId, now>>

DbCreateUser(d, salt) == DbCreateUserDo(d, salt) /\ UNCHANGED calls

\* updateUser run without another statement between its own: one UPDATE per
\* supplied field, in the order email, username, password, firstName; a
\* statement that violates NOT NULL or a unique index throws and ends the
\* call with the earlier statements applied
DbUpdateUserDo(id, upd, salt) ==
    /\ backend = "db"
    /\ IF id \notin DOMAIN users
       THEN /\ UNCHANGED users
            /\ last' = DoneUpdate("updateUser", id, 0, UserFields(upd), 0, FALSE)
       ELSE LET u0 == users[id]
                emailErr == upd.email = NULL
                              \/ (upd.email # UNDEF /\ ~UserEmailUnique(upd.email, id))
                u1 == IF upd.email # UNDEF /\ ~emailErr
                      THEN [u0 EXCEPT !.email = upd.email] ELSE u0
                nameErr == /\ ~emailErr
                           /\ \/ upd.username = NULL
                              \/ (upd.username # UNDEF
                                    /\ ~UserUsernameUnique(upd.username, id))
                u2 == IF ~emailErr /\ ~nameErr /\ upd.username # UNDEF
                      THEN [u1 EXCEPT !.username = upd.username] ELSE u1
                pwErr == ~emailErr /\ ~nameErr /\ upd.password = NULL
                failed == emailErr \/ nameErr \/ pwErr
                u3 == IF ~failed /\ upd.password # UNDEF
                      THEN [u2 EXCEPT !.passwordHash = hash(upd.password, salt)] ELSE u2
                u4 == IF ~failed /\ upd.firstName # UNDEF
                      THEN [u3 EXCEPT !.firstName = upd.firstName] ELSE u3
            IN /\ users' = Put(users, id, u4)
               /\ last' = DoneUpdate("updateUser", id, 0, UserFields(upd),
                                   IF failed THEN 0 ELSE id, failed)
    /\ UNCHANGED <<backend, listings, categories, favorites, listingCategories,
                   listingCurrentId, categoryCurrentId, userCurrentId,
                   favoriteCurrentId, now>>

DbUpdateUser(id, upd, salt) == DbUpdateUserDo(id, upd, salt) /\ UNCHANGED calls

\* verifyUser: UPDATE users SET is_verified = true WHERE email = ...
\* RETURNING id
DbVerifyUser(email) ==
    /\ backend = "db"
    /\ users' = [u \in DOMAIN users |->
                   IF users[u].email = email
                   THEN [users[u] EXCEPT !.isVerified = TRUE] ELSE users[u]]
    /\ last' = Done("verifyUser", getUserByEmail(email), 0, email,
                    Bool(getUserByEmail(email) # 0), FALSE)
    /\ UNCHANGED <<backend, listings, categories, favorites, listingCategories,
                   listingCurrentId, categoryCurrentId, userCurrentId,
                   favoriteCurrentId, now, calls>>

DbValidatePassword(email, password) ==
    /\ backend = "db"
    /\ LET user == getUserByEmail(email)
       IN last' = DoneText("validatePassword", 0, email, password,
                    IF user = 0 THEN 0
                    ELSE IF ~compare(password, users[user].passwordHash) THEN 0
                    ELSE user,
                    FALSE)
    /\ UNCHANGED <<backend, listings, categories, users, favorites, listingCategories,
                   listingCurrentId, categoryCurrentId, userCurrentId,
                   favoriteCurrentId, now, calls>>

\* updateListing run without another statement between its own: one UPDATE
\* per supplied field, in the order title, description, items, userId; a statement
\* that violates NOT NULL or the foreign key throws and ends the call with
\* the earlier statements applied
DbUpdateListing(id, upd) ==
    /\ backend = "db"
    /\ IF id \notin DOMAIN listings
       THEN /\ UNCHANGED listings
            /\ last' = DoneUpdate("updateListing", id, upd.userId, ListingFields(upd), 0, FALSE)
       ELSE LET l0 == listings[id]
                titleErr == upd.title = NULL
                l1 == IF upd.title # UNDEF /\ ~titleErr
                      THEN [l0 EXCEPT !.title = upd.title] ELSE l0
                l2 == IF ~titleErr /\ upd.description # UNDEF
                      THEN [l1 EXCEPT !.description = upd.description] ELSE l1
                li == IF ~titleErr /\ upd.items # NoItems
                      THEN [l2 EXCEPT !.items = JsonItems(upd.items)] ELSE l2
                ownerErr == ~titleErr /\ upd.userId # NoId /\ ~FkUser(upd.userId)
                l3 == IF ~titleErr /\ ~ownerErr /\ upd.userId # NoId
                      THEN [li EXCEPT !.userId = upd.userId] ELSE li
            IN /\ listings' = Put(listings, id, l3)
               /\ last' = DoneUpdate("updateListing", id, upd.userId, ListingFields(upd),
                               IF titleErr \/ ownerErr THEN 0 ELSE id,
                               titleErr \/ ownerErr)
    /\ UNCHANGED <<backend, categories, users, favorites, listingCategories,
                   listingCurrentId, categoryCurrentId, userCurrentId,
                   favoriteCurrentId, now, calls>>

\* updateCategory run without another statement between its own: UPDATE name
\* (unique, NOT NULL), then UPDATE description
DbUpdateCategoryDo(id, upd) ==
    /\ backend = "db"
    /\ IF id \notin DOMAIN categories
       THEN /\ UNCHANGED categories
            /\ last' = DoneUpdate("updateCategory", id, 0, CategoryFields(upd), 0, FALSE)
       ELSE LET c0 == categories[id]
                nameErr == upd.name = NULL
                             \/ (upd.name # UNDEF /\ ~CategoryNameUnique(upd.name, id))
                c1 == IF upd.name # UNDEF /\ ~nameErr
                      THEN [c0 EXCEPT !.name = upd.name] ELSE c0
                c2 == IF ~nameErr /\ upd.description # UNDEF
                      THEN [c1 EXCEPT !.description = upd.description] ELSE c1
            IN /\ categories' = Put(categories, id, c2)
               /\ last' = DoneUpdate("updateCategory", id, 0, CategoryFields(upd),
                               IF nameErr THEN 0 ELSE id, nameErr)
    /\ UNCHANGED <<backend, listings, users, favorites, listingCategories,
                   listingCurrentId, categoryCurrentId, userCurrentId,
                   favoriteCurrentId, now>>

DbUpdateCategory(id, upd) == DbUpdateCategoryDo(id, upd) /\ UNCHANGED calls

\* ------------------------------------------- interleaved DbStorage handlers
\* the slot a newly started handler takes
FreeSlot == Min({p \in 1..MaxCalls : calls[p] = Idle})
Suspend(op, a, b, s, t, seen) ==
    /\ \E p \in 1..MaxCalls : calls[p] = Idle
    /\ calls' = [calls EXCEPT ![FreeSlot] =
                    [op |-> op, a |-> a, b |-> b, s |-> s, t |-> t, seen |-> seen,
                     upd |-> <<>>, rec |-> NoUser]]
\* a handler on user a suspends holding the supplied fields upd and the user
\* record rec it has read or built
SuspendUser(op, a, upd, rec, seen) ==
    /\ \E p \in 1..MaxCalls : calls[p] = Idle
    /\ calls' = [calls EXCEPT ![FreeSlot] =
                    [op |-> op, a |-> a, b |-> 0, s |-> "", t |-> "", seen |-> seen,
                     upd |-> upd, rec |-> rec]]
Resume(p) == calls' = [calls EXCEPT ![p] = Idle]

\* addFavorite up to its first await: the SELECT, whose result the handler
\* holds while other handlers run
DbAddFavoriteSelect(userId, listingId) ==
    /\ backend = "db"
    /\ Suspend("addFavorite", userId, listingId, "", "", FindFavorite(userId, listingId))
    /\ UNCHANGED <<backend, listings, categories, users, favorites, listingCategories,
                   listingCurrentId, categoryCurrentId, userCurrentId,
                   favoriteCurrentId, now, last>>

\* addFavorite from its SELECT's result to its return
DbAddFavoriteReturn(p) ==
    /\ calls[p].op = "addFavorite"
    /\ DbAddFavoriteInsert(calls[p].a, calls[p].b, calls[p].seen)
    /\ Resume(p)

\* ----------------------------------------- interleaved updateUser, verifyUser
\* the handlers after updateUser replaced the object stored for user id: a
\* verifyUser handler that looked that user up now holds the old object
Detached(id) ==
    [p \in 1..MaxCalls |->
        IF calls[p].op = "verifyUser" /\ calls[p].a = id
        THEN [calls[p] EXCEPT !.seen = 0] ELSE calls[p]]

UpdateOf(fields) ==
    [email |-> fields[1], username |-> fields[2], password |-> fields[3],
     firstName |-> fields[4]]

\* MemStorage.createUser up to its await of hash: it has drawn its id
MemCreateUserDraw(d) ==
    /\ backend = "mem"
    /\ userCurrentId <= MaxUsers
    /\ userCurrentId' = userCurrentId + 1
    /\ SuspendUser("createUser", userCurrentId, UserFields(d), NoUser, 0)
    /\ UNCHANGED <<backend, listings, categories, users, favorites, listingCategories,
                   listingCurrentId, categoryCurrentId, favoriteCurrentId, now, last>>

\* MemStorage.createUser from the hash to its return: the user is stored
\* under the id drawn
MemCreateUserWrite(p, salt) ==
    /\ backend = "mem"
    /\ calls[p].op = "createUser"
    /\ users' = Put(users, calls[p].a, User(calls[p].a, UpdateOf(calls[p].upd), salt))
    /\ last' = DoneText("createUser", 0, calls[p].upd[1], calls[p].upd[2], calls[p].a, FALSE)
    /\ Resume(p)
    /\ UNCHANGED <<backend, listings, categories, favorites, listingCategories,
                   listingCurrentId, categoryCurrentId, userCurrentId,
                   favoriteCurrentId, now>>

\* MemStorage.updateUser up to its await of hash: it has read the user and
\* built the updated copy; without a password to hash it writes and returns
MemUpdateUserRead(id, upd, salt) ==
    IF id \in DOMAIN users /\ upd.password \notin {UNDEF, NULL, ""}
    THEN /\ backend = "mem"
         /\ SuspendUser("updateUser", id, UserFields(upd),
                [users[id] EXCEPT
                   !.email = Coalesce(upd.email, users[id].email),
                   !.username = Coalesce(upd.username, users[id].username),
                   !.firstName = Coalesce(upd.firstName, users[id].firstName)], 0)
         /\ UNCHANGED <<backend, store, now, last>>
    ELSE /\ MemUpdateUserDo(id, upd, salt)
         /\ calls' = Detached(id)

\* MemStorage.updateUser from the hash to its return: the copy is stored
MemUpdateUserWrite(p, salt) ==
    /\ backend = "mem"
    /\ calls[p].op = "updateUser"
    /\ users' = Put(users, calls[p].a,
                    [calls[p].rec EXCEPT !.passwordHash = hash(calls[p].upd[3], salt)])
    /\ last' = DoneUpdate("updateUser", calls[p].a, 0, calls[p].upd, calls[p].a, FALSE)
    /\ calls' = [Detached(calls[p].a) EXCEPT ![p] = Idle]
    /\ UNCHANGED <<backend, listings, categories, favorites, listingCategories,
                   listingCurrentId, categoryCurrentId, userCurrentId,
                   favoriteCurrentId, now>>

\* MemStorage.verifyUser up to the result of getUserByEmail
MemVerifyUserLookup(email) ==
    /\ backend = "mem"
    /\ IF getUserByEmail(email) = 0
       THEN /\ last' = Done("verifyUser", 0, 0, email, 0, FALSE)
            /\ UNCHANGED calls
       ELSE /\ Suspend("verifyUser", getUserByEmail(email), 0, email, "", 1)
            /\ UNCHANGED last
    /\ UNCHANGED <<backend, store, now>>

\* MemStorage.verifyUser from there: the flag is set on the object the lookup
\* returned, which is the stored one unless updateUser replaced it since
MemVerifyUserSet(p) ==
    /\ backend = "mem"
    /\ calls[p].op = "verifyUser"
    /\ users' = IF calls[p].seen = 1
                THEN [users EXCEPT ![calls[p].a].isVerified = TRUE]
                ELSE users
    /\ last' = Done("verifyUser", calls[p].a, 0, calls[p].s, 1, FALSE)
    /\ Resume(p)
    /\ UNCHANGED <<backend, listings, categories, favorites, listingCategories,
                   listingCurrentId, categoryCurrentId, userCurrentId,
                   favoriteCurrentId, now>>

\* DbStorage.updateUser up to the result of getUserById
DbUpdateUserRead(id, upd) ==
    /\ backend = "db"
    /\ IF id \notin DOMAIN users
       THEN /\ last' = DoneUpdate("updateUser", id, 0, UserFields(upd), 0, FALSE)
            /\ UNCHANGED calls
       ELSE /\ SuspendUser("updateUser", id, UserFields(upd), users[id], 0)
            /\ UNCHANGED last
    /\ UNCHANGED <<backend, store, now>>

\* DbStorage.updateUser from there: its UPDATE statements
DbUpdateUserWrite(p, salt) ==
    /\ calls[p].op = "updateUser"
    /\ DbUpdateUserDo(calls[p].a, UpdateOf(calls[p].upd), salt)
    /\ Resume(p)

\* ------------------------------------------ interleaved DbStorage.updateListing
\* The handler holds the listing its getListing returned (rec), the fields
\* it was given (upd, and the userId in b) and the statement it runs next
\* (seen): 1 title, 2 description, 3 userId, 4 the final SELECT.
SuspendListing(id, upd, rec, seen) ==
    /\ \E p \in 1..MaxCalls : calls[p] = Idle
    /\ calls' = [calls EXCEPT ![FreeSlot] =
                    [op |-> "updateListing", a |-> id, b |-> upd.userId, s |-> "",
                     t |-> "", seen |-> seen, upd |-> ListingFields(upd), rec |-> rec]]
\* the first statement from the k-th on whose field was supplied
NextStatement(fields, owner, k) ==
    IF k <= 1 /\ fields[1] # UNDEF THEN 1
    ELSE IF k <= 2 /\ fields[2] # UNDEF THEN 2
    ELSE IF k <= 3 /\ owner # NoId THEN 3
    ELSE 4
\* the completed call of a handler that had found its listing: what it
\* returns (ret, rec) or that it threw
ReturnFromUpdate(h, ret, rec, err) ==
    [DoneUpdate("updateListing", h.a, h.b, h.upd, ret, err) EXCEPT !.dep = 1, !.rec = rec]

\* updateListing up to the result of getListing and the test of
\* Object.keys(listingUpdate)
DbUpdateListingGet(id, upd) ==
    /\ backend = "db"
    /\ IF id \notin DOMAIN listings
       THEN /\ last' = DoneUpdate("updateListing", id, upd.userId, ListingFields(upd),
                                  0, FALSE)
            /\ UNCHANGED calls
       ELSE IF NextStatement(ListingFields(upd), upd.userId, 1) = 4
       THEN /\ last' = [DoneUpdate("updateListing", id, upd.userId, ListingFields(upd),
                                   id, FALSE) EXCEPT !.dep = 1, !.rec = listings[id]]
            /\ UNCHANGED calls
       ELSE /\ Cardinality({p \in 1..MaxCalls : calls[p].op = "updateListing"}) < MaxUpdates
            /\ SuspendListing(id, upd, listings[id],
                              NextStatement(ListingFields(upd), upd.userId, 1))
            /\ UNCHANGED last
    /\ UNCHANGED <<backend, store, now>>

\* the next UPDATE listings SET ... WHERE id = ... of the handler: it changes
\* the row if there is one; the title statement returns undefined when no
\* row came back; a NOT NULL or foreign key violation throws
DbUpdateListingStatement(p) ==
    /\ calls[p].op = "updateListing"
    /\ calls[p].seen \in 1..3
    /\ LET h == calls[p]
           id == h.a
           found == id \in DOMAIN listings
           goOn == calls' = [calls EXCEPT
                               ![p].seen = NextStatement(h.upd, h.b, h.seen + 1)]
       IN CASE h.seen = 1 ->
                 IF ~found
                 THEN /\ last' = ReturnFromUpdate(h, 0, NoRecord, FALSE)
                      /\ Resume(p)
                      /\ UNCHANGED listings
                 ELSE IF h.upd[1] = NULL
                 THEN /\ last' = ReturnFromUpdate(h, 0, NoRecord, TRUE)
                      /\ Resume(p)
                      /\ UNCHANGED listings
                 ELSE /\ listings' = [listings EXCEPT ![id].title = h.upd[1]]
                      /\ goOn
                      /\ UNCHANGED last
            [] h.seen = 2 ->
                 /\ listings' = IF found
                                THEN [listings EXCEPT ![id].description = h.upd[2]]
                                ELSE listings
                 /\ goOn
                 /\ UNCHANGED last
            [] h.seen = 3 ->
                 IF found /\ ~FkUser(h.b)
                 THEN /\ last' = ReturnFromUpdate(h, 0, NoRecord, TRUE)
                      /\ Resume(p)
                      /\ UNCHANGED listings
                 ELSE /\ listings' = IF found
                                     THEN [listings EXCEPT ![id].userId = h.b]
                                     ELSE listings
                      /\ goOn
                      /\ UNCHANGED last
    /\ UNCHANGED <<backend, categories, users, favorites, listingCategories,
                   listingCurrentId, categoryCurrentId, userCurrentId,
                   favoriteCurrentId, now>>

\* updateListing returning the listing its getListing read when the final
\* SELECT finds no row
DbUpdateListingReturnsExisting(p) ==
    /\ calls[p].op = "updateListing"
    /\ calls[p].seen = 4
    /\ last' = IF calls[p].a \in DOMAIN listings
               THEN ReturnFromUpdate(calls[p], calls[p].a, listings[calls[p].a], FALSE)
               ELSE ReturnFromUpdate(calls[p], calls[p].a, calls[p].rec, FALSE)
    /\ Resume(p)
    /\ UNCHANGED <<backend, store, now>>

\* the final SELECT of updateListing and its return
DbUpdateListingReread(p) ==
    /\ calls[p].op = "updateListing"
    /\ calls[p].seen = 4
    /\ last' = IF calls[p].a \in DOMAIN listings
               THEN ReturnFromUpdate(calls[p], calls[p].a, listings[calls[p].a], FALSE)
               ELSE ReturnFromUpdate(calls[p], 0, NoRecord, FALSE)
    /\ Resume(p)
    /\ UNCHANGED <<backend, store, now>>

\* ------------------------------------------------------------------- time
\* the clock the creation timestamps are read from advances between calls
Tick ==
    /\ now < MaxTime
    /\ now' = now + 1
    /\ UNCHANGED <<backend, store, calls, last>>

MemGetUserFavorites(userId) ==
    /\ backend = "mem"
    /\ \E list \in MemFavoriteOrders(userId) :
          last' = DoneList("getUserFavorites", userId, list)
    /\ UNCHANGED <<backend, store, now, calls>>

DbGetUserFavorites(userId) ==
    /\ backend = "db"
    /\ \E list \in DbFavoriteOrders(userId) :
          last' = DoneList("getUserFavorites", userId, list)
    /\ UNCHANGED <<backend, store, now, calls>>

\* ------------------------------------------------------- category queries
MemGetCategoryListings(categoryId) ==
    /\ backend = "mem"
    /\ \E list \in NewestFirst(getCategoryListingsIds(categoryId)) :
          last' = DoneList("getCategoryListings", categoryId, list)
    /\ UNCHANGED <<backend, store, now, calls>>

\* getCategoryListings without its ORDER BY
DbGetCategoryListingsUnordered(categoryId) ==
    /\ backend = "db"
    /\ \E list \in Orderings(getCategoryListingsIds(categoryId)) :
          last' = DoneList("getCategoryListings", categoryId, list)
    /\ UNCHANGED <<backend, store, now, calls>>

DbGetCategoryListings(categoryId) ==
    /\ backend = "db"
    /\ \E list \in NewestFirst(getCategoryListingsIds(categoryId)) :
          last' = DoneList("getCategoryListings", categoryId, list)
    /\ UNCHANGED <<backend, store, now, calls>>

MemGetAllCategories ==
    /\ backend = "mem"
    /\ \E list \in ByNameThenId(DOMAIN categories) :
          last' = DoneList("getAllCategories", 0, list)
    /\ UNCHANGED <<backend, store, now, calls>>

DbGetAllCategories ==
    /\ backend = "db"
    /\ \E list \in ByName(DOMAIN categories) :
          last' = DoneList("getAllCategories", 0, list)
    /\ UNCHANGED <<backend, store, now, calls>>

\* getListingCategories without its sort: the categories in the order their
\* associations were inserted
MemGetListingCategoriesUnsorted(listingId) ==
    /\ backend = "mem"
    /\ \E list \in Orderings(getListingCategoriesIds(listingId)) :
          last' = DoneList("getListingCategories", listingId, list)
    /\ UNCHANGED <<backend, store, now, calls>>

MemGetListingCategories(listingId) ==
    /\ backend = "mem"
    /\ \E list \in ByName(getListingCategoriesIds(listingId)) :
          last' = DoneList("getListingCategories", listingId, list)
    /\ UNCHANGED <<backend, store, now, calls>>

DbGetListingCategories(listingId) ==
    /\ backend = "db"
    /\ \E list \in ByName(getListingCategoriesIds(listingId)) :
          last' = DoneList("getListingCategories", listingId, list)
    /\ UNCHANGED <<backend, store, now, calls>>

\* ------------------------------------------------------------ route handlers
\* A handler runs from one await to the next as one step; between its steps
\* the other handlers run. The storage behind the routes is the backend in
\* use; last records the storage call the handler made, or the status of the
\* response when it made none.
CategoryData(name) == [name |-> name, description |-> UNDEF]

\* POST /categories up to the result of getCategoryByName
PostCategoriesLookup(d) ==
    /\ IF getCategoryByName(d.name) # 0
       THEN /\ last' = Done("POST /categories", 0, 0, d.name, 409, FALSE)
            /\ UNCHANGED calls
       ELSE /\ Suspend("POST /categories", 0, 0, d.name, "", 0)
            /\ UNCHANGED last
    /\ UNCHANGED <<backend, store, now>>

\* POST /categories from there: createCategory and the response
PostCategoriesCreate(p) ==
    /\ calls[p].op = "POST /categories"
    /\ \/ MemCreateCategoryDo(CategoryData(calls[p].s))
       \/ DbCreateCategoryDo(CategoryData(calls[p].s))
    /\ Resume(p)

\* PATCH /categories/:id up to the result of getCategory
PatchCategoriesGet(id, upd) ==
    /\ IF id \notin DOMAIN categories
       THEN /\ last' = Done("PATCH /categories/:id", id, 0, upd.name, 404, FALSE)
            /\ UNCHANGED calls
       ELSE /\ Suspend("PATCH /categories/:id", id, 0, upd.name, categories[id].name, 0)
            /\ UNCHANGED last
    /\ UNCHANGED <<backend, store, now>>

\* PATCH /categories/:id from there: the name is looked up when it is given
\* and differs from the name read by getCategory, otherwise updateCategory
\* is called at once
PatchCategoriesCheck(p) ==
    /\ calls[p].op = "PATCH /categories/:id"
    /\ calls[p].seen = 0
    /\ IF calls[p].s # UNDEF /\ calls[p].s # calls[p].t
       THEN /\ IF getCategoryByName(calls[p].s) # 0
               THEN /\ last' = Done("PATCH /categories/:id", calls[p].a, 0,
                                    calls[p].s, 409, FALSE)
                    /\ Resume(p)
               ELSE /\ calls' = [calls EXCEPT ![p].seen = 1]
                    /\ UNCHANGED last
            /\ UNCHANGED <<backend, store, now>>
       ELSE /\ \/ MemUpdateCategoryDo(calls[p].a, CategoryData(calls[p].s))
               \/ DbUpdateCategoryDo(calls[p].a, CategoryData(calls[p].s))
            /\ Resume(p)

\* PATCH /categories/:id after a lookup that found no category of the name
PatchCategoriesUpdate(p) ==
    /\ calls[p].op = "PATCH /categories/:id"
    /\ calls[p].seen = 1
    /\ \/ MemUpdateCategoryDo(calls[p].a, CategoryData(calls[p].s))
       \/ DbUpdateCategoryDo(calls[p].a, CategoryData(calls[p].s))
    /\ Resume(p)

UserData(email, username) ==
    [email |-> email, username |-> username, password |-> "pw1", firstName |-> UNDEF]

\* POST /auth/register up to the result of getUserByEmail
RegisterLookupEmail(d) ==
    /\ IF getUserByEmail(d.email) # 0
       THEN /\ last' = DoneText("POST /auth/register", 0, d.email, d.username, 409, FALSE)
            /\ UNCHANGED calls
       ELSE /\ Suspend("POST /auth/register", 0, 0, d.email, d.username, 0)
            /\ UNCHANGED last
    /\ UNCHANGED <<backend, store, now>>

\* POST /auth/register from there to the result of getUserByUsername
RegisterLookupUsername(p) ==
    /\ calls[p].op = "POST /auth/register"
    /\ calls[p].seen = 0
    /\ IF getUserByUsername(calls[p].t) # 0
       THEN /\ last' = DoneText("POST /auth/register", 0, calls[p].s, calls[p].t,
                                409, FALSE)
            /\ Resume(p)
       ELSE /\ calls' = [calls EXCEPT ![p].seen = 1]
            /\ UNCHANGED last
    /\ UNCHANGED <<backend, store, now>>

\* POST /auth/register from there: createUser and the response
RegisterCreate(p) ==
    /\ calls[p].op = "POST /auth/register"
    /\ calls[p].seen = 1
    /\ \/ MemCreateUserDo(UserData(calls[p].s, calls[p].t), 1)
       \/ DbCreateUserDo(UserData(calls[p].s, calls[p].t), 1)
    /\ Resume(p)

\* ========================================================= specifications
\* Users, listings and favorites; each call runs to completion before the
\* next starts.
Next ==
    \/ \E d \in BasicUsers : MemCreateUser(d, 1)
    \/ \E d \in BasicUsers : DbCreateUser(d, 1)
    \/ \E d \in BasicListings : MemCreateListing(d)
    \/ \E d \in BasicListings : DbCreateListing(d)
    \/ \E id \in 1..MaxListings : MemDeleteListing(id)
    \/ \E id \in 1..MaxListings : DbDeleteListing(id)
    \/ \E id \in 1..MaxListings, upd \in OwnerUpdates : MemUpdateListing(id, upd)
    \/ \E id \in 1..MaxListings, upd \in OwnerUpdates : DbUpdateListing(id, upd)
    \/ \E u \in 1..MaxUsers, l \in 1..MaxListings : MemAddFavorite(u, l)
    \/ \E u \in 1..MaxUsers, l \in 1..MaxListings : DbAddFavorite(u, l)
    \/ \E u \in 1..MaxUsers, l \in 1..MaxListings : MemRemoveFavorite(u, l)
    \/ \E u \in 1..MaxUsers, l \in 1..MaxListings : DbRemoveFavorite(u, l)

Spec == Init /\ [][Next]_vars

\* Listings, categories and their associations; each call runs to completion
\* before the next starts.
NextCat ==
    \/ \E d \in OneUser : MemCreateUser(d, 1)
    \/ \E d \in OneUser : DbCreateUser(d, 1)
    \/ \E d \in OwnedListings : MemCreateListing(d)
    \/ \E d \in OwnedListings : DbCreateListing(d)
    \/ \E id \in 1..MaxListings : MemDeleteListing(id)
    \/ \E id \in 1..MaxListings : DbDeleteListing(id)
    \/ \E d \in BasicCategories : MemCreateCategory(d)
    \/ \E d \in BasicCategories : DbCreateCategory(d)
    \/ \E id \in 1..MaxCategories : MemDeleteCategory(id)
    \/ \E id \in 1..MaxCategories : DbDeleteCategory(id)
    \/ \E l \in 1..MaxListings, c \in 1..MaxCategories : MemAddCategoryToListing(l, c)
    \/ \E l \in 1..MaxListings, c \in 1..MaxCategories : DbAddCategoryToListing(l, c)
    \/ \E l \in 1..MaxListings, c \in 1..MaxCategories : MemRemoveCategoryFromListing(l, c)
    \/ \E l \in 1..MaxListings, c \in 1..MaxCategories : DbRemoveCategoryFromListing(l, c)

SpecCat == Init /\ [][NextCat]_vars

\* Favorites with DbStorage.addFavorite's two statements interleaved with the
\* other calls (MemStorage.addFavorite has no await and runs as one step).
NextFavRace ==
    \/ \E d \in OneUser : MemCreateUser(d, 1)
    \/ \E d \in OneUser : DbCreateUser(d, 1)
    \/ \E d \in OwnedListings : MemCreateListing(d)
    \/ \E d \in OwnedListings : DbCreateListing(d)
    \/ \E u \in 1..MaxUsers, l \in 1..MaxListings : MemAddFavorite(u, l)
    \/ \E u \in 1..MaxUsers, l \in 1..MaxListings : DbAddFavoriteSelect(u, l)
    \/ \E p \in 1..MaxCalls : DbAddFavoriteReturn(p)
    \/ \E u \in 1..MaxUsers, l \in 1..MaxListings : MemRemoveFavorite(u, l)
    \/ \E u \in 1..MaxUsers, l \in 1..MaxListings : DbRemoveFavorite(u, l)

SpecFavRace == Init /\ [][NextFavRace]_vars

\* Users and their credentials; each call runs to completion before the
\* next starts.
NextAuth ==
    \/ \E d \in AllUsers, salt \in Salts : MemCreateUser(d, salt)
    \/ \E d \in AllUsers, salt \in Salts : DbCreateUser(d, salt)
    \/ \E id \in 1..MaxUsers, upd \in PasswordUpdates, salt \in Salts :
          MemUpdateUser(id, upd, salt)
    \/ \E id \in 1..MaxUsers, upd \in PasswordUpdates, salt \in Salts :
          DbUpdateUser(id, upd, salt)
    \/ \E email \in Emails, password \in Passwords : MemValidatePassword(email, password)
    \/ \E email \in Emails, password \in Passwords : DbValidatePassword(email, password)

SpecAuth == Init /\ [][NextAuth]_vars

\* Category names: the storage calls, and the two category routes with their
\* awaits interleaved.
NextCatNames ==
    \/ \E d \in BasicCategories : MemCreateCategory(d)
    \/ \E d \in BasicCategories : DbCreateCategory(d)
    \/ \E id \in 1..MaxCategories, upd \in NameUpdates : MemUpdateCategory(id, upd)
    \/ \E id \in 1..MaxCategories, upd \in NameUpdates : DbUpdateCategory(id, upd)
    \/ \E d \in BasicCategories : PostCategoriesLookup(d)
    \/ \E p \in 1..MaxCalls : PostCategoriesCreate(p)
    \/ \E id \in 1..MaxCategories, upd \in NameUpdates : PatchCategoriesGet(id, upd)
    \/ \E p \in 1..MaxCalls : PatchCategoriesCheck(p)
    \/ \E p \in 1..MaxCalls : PatchCategoriesUpdate(p)

SpecCatNames == Init /\ [][NextCatNames]_vars

\* User identities: the storage calls, and the register route with its
\* awaits interleaved.
NextUsers ==
    \/ \E d \in IdentityUsers : MemCreateUser(d, 1)
    \/ \E d \in IdentityUsers : DbCreateUser(d, 1)
    \/ \E id \in 1..MaxUsers, upd \in IdentityUpdates : MemUpdateUser(id, upd, 1)
    \/ \E id \in 1..MaxUsers, upd \in IdentityUpdates : DbUpdateUser(id, upd, 1)
    \/ \E d \in IdentityUsers : RegisterLookupEmail(d)
    \/ \E p \in 1..MaxCalls : RegisterLookupUsername(p)
    \/ \E p \in 1..MaxCalls : RegisterCreate(p)

SpecUsers == Init /\ [][NextUsers]_vars

\* Partial updates of listings, categories and users; each call runs to
\* completion before the next starts.
NextUpdates ==
    \/ \E d \in NamedUsers : MemCreateUser(d, 1)
    \/ \E d \in NamedUsers : DbCreateUser(d, 1)
    \/ \E d \in DescribedListings : MemCreateListing(d)
    \/ \E d \in DescribedListings : DbCreateListing(d)
    \/ \E d \in DescribedCategories : MemCreateCategory(d)
    \/ \E d \in DescribedCategories : DbCreateCategory(d)
    \/ \E id \in 1..MaxListings, upd \in ListingUpdates : MemUpdateListing(id, upd)
    \/ \E id \in 1..MaxListings, upd \in ListingUpdates : DbUpdateListing(id, upd)
    \/ \E id \in 1..MaxCategories, upd \in CategoryUpdates : MemUpdateCategory(id, upd)
    \/ \E id \in 1..MaxCategories, upd \in CategoryUpdates : DbUpdateCategory(id, upd)
    \/ \E id \in 1..MaxUsers, upd \in UserUpdates : MemUpdateUser(id, upd, 1)
    \/ \E id \in 1..MaxUsers, upd \in UserUpdates : DbUpdateUser(id, upd, 1)

SpecUpdates == Init /\ [][NextUpdates]_vars

\* The verified flag; each call runs to completion before the next starts.
NextVerify ==
    \/ \E d \in IdentityUsers : MemCreateUser(d, 1)
    \/ \E d \in IdentityUsers : DbCreateUser(d, 1)
    \/ \E id \in 1..MaxUsers, upd \in IdentityUpdates : MemUpdateUser(id, upd, 1)
    \/ \E id \in 1..MaxUsers, upd \in IdentityUpdates : DbUpdateUser(id, upd, 1)
    \/ \E email \in Emails : MemVerifyUser(email)
    \/ \E email \in Emails : DbVerifyUser(email)

SpecVerify == Init /\ [][NextVerify]_vars

\* The verified flag with the awaits of updateUser and of
\* MemStorage.verifyUser interleaved with the other calls.
NextVerifyRace ==
    \/ \E d \in BasicUsers : MemCreateUser(d, 1)
    \/ \E d \in BasicUsers : DbCreateUser(d, 1)
    \/ \E id \in 1..MaxUsers, upd \in PasswordUpdates : MemUpdateUserRead(id, upd, 1)
    \/ \E p \in 1..MaxCalls : MemUpdateUserWrite(p, 1)
    \/ \E id \in 1..MaxUsers, upd \in PasswordUpdates : DbUpdateUserRead(id, upd)
    \/ \E p \in 1..MaxCalls : DbUpdateUserWrite(p, 1)
    \/ \E email \in Emails : MemVerifyUserLookup(email)
    \/ \E p \in 1..MaxCalls : MemVerifyUserSet(p)
    \/ \E email \in Emails : DbVerifyUser(email)

SpecVerifyRace == Init /\ [][NextVerifyRace]_vars

\* Favorites and the order getUserFavorites returns them in, with time
\* passing between the calls; each call runs to completion before the next
\* starts.
NextFavOrder ==
    \/ Tick
    \/ \E d \in OneUser : MemCreateUser(d, 1)
    \/ \E d \in OneUser : DbCreateUser(d, 1)
    \/ \E d \in OwnedListings : MemCreateListing(d)
    \/ \E d \in OwnedListings : DbCreateListing(d)
    \/ \E u \in 1..MaxUsers, l \in 1..MaxListings : MemAddFavorite(u, l)
    \/ \E u \in 1..MaxUsers, l \in 1..MaxListings : DbAddFavorite(u, l)
    \/ \E u \in 1..MaxUsers, l \in 1..MaxListings : MemRemoveFavorite(u, l)
    \/ \E u \in 1..MaxUsers, l \in 1..MaxListings : DbRemoveFavorite(u, l)
    \/ \E u \in 1..MaxUsers : MemGetUserFavorites(u)
    \/ \E u \in 1..MaxUsers : DbGetUserFavorites(u)

SpecFavOrder == Init /\ [][NextFavOrder]_vars

\* Reads, updates and deletes by id, of ids that exist and of ids that do
\* not; each call runs to completion before the next starts.
NextAbsent ==
    \/ \E d \in OneUser : MemCreateUser(d, 1)
    \/ \E d \in OneUser : DbCreateUser(d, 1)
    \/ \E d \in OwnedListings : MemCreateListing(d)
    \/ \E d \in OwnedListings : DbCreateListing(d)
    \/ \E d \in BasicCategories : MemCreateCategory(d)
    \/ \E d \in BasicCategories : DbCreateCategory(d)
    \/ \E id \in 1..MaxListings : MemGetListing(id)
    \/ \E id \in 1..MaxListings : DbGetListing(id)
    \/ \E id \in 1..MaxCategories : MemGetCategory(id)
    \/ \E id \in 1..MaxCategories : DbGetCategory(id)
    \/ \E id \in 1..MaxUsers : MemGetUserById(id)
    \/ \E id \in 1..MaxUsers : DbGetUserById(id)
    \/ \E id \in 1..MaxListings, upd \in OwnerUpdates : MemUpdateListing(id, upd)
    \/ \E id \in 1..MaxListings, upd \in OwnerUpdates : DbUpdateListing(id, upd)
    \/ \E id \in 1..MaxCategories, upd \in NameUpdates : MemUpdateCategory(id, upd)
    \/ \E id \in 1..MaxCategories, upd \in NameUpdates : DbUpdateCategory(id, upd)
    \/ \E id \in 1..MaxUsers, upd \in PasswordUpdates : MemUpdateUser(id, upd, 1)
    \/ \E id \in 1..MaxUsers, upd \in PasswordUpdates : DbUpdateUser(id, upd, 1)
    \/ \E id \in 1..MaxListings : MemDeleteListing(id)
    \/ \E id \in 1..MaxListings : DbDeleteListing(id)
    \/ \E id \in 1..MaxCategories : MemDeleteCategory(id)
    \/ \E id \in 1..MaxCategories : DbDeleteCategory(id)

SpecAbsent == Init /\ [][NextAbsent]_vars

\* Listings created with item lists and read back, with time passing
\* between the calls; each call runs to completion before the next starts.
NextRoundTrip ==
    \/ Tick
    \/ \E d \in OneUser : MemCreateUser(d, 1)
    \/ \E d \in OneUser : DbCreateUser(d, 1)
    \/ \E d \in ItemListings : MemCreateListing(d)
    \/ \E d \in ItemListings : DbCreateListing(d)
    \/ \E id \in 1..MaxListings : MemGetListing(id)
    \/ \E id \in 1..MaxListings : DbGetListing(id)
    \/ \E id \in 1..MaxListings : MemDeleteListing(id)
    \/ \E id \in 1..MaxListings : DbDeleteListing(id)

SpecRoundTrip == Init /\ [][NextRoundTrip]_vars

\* Listings of a category and the order getCategoryListings returns them
\* in, with time passing between the calls; each call runs to completion
\* before the next starts.
NextCatListings ==
    \/ Tick
    \/ \E d \in OneUser : MemCreateUser(d, 1)
    \/ \E d \in OneUser : DbCreateUser(d, 1)
    \/ \E d \in OwnedListings : MemCreateListing(d)
    \/ \E d \in OwnedListings : DbCreateListing(d)
    \/ \E id \in 1..MaxListings : MemDeleteListing(id)
    \/ \E id \in 1..MaxListings : DbDeleteListing(id)
    \/ \E d \in DescribedCategories : MemCreateCategory(d)
    \/ \E d \in DescribedCategories : DbCreateCategory(d)
    \/ \E l \in 1..MaxListings, c \in 1..MaxCategories : MemAddCategoryToListing(l, c)
    \/ \E l \in 1..MaxListings, c \in 1..MaxCategories : DbAddCategoryToListing(l, c)
    \/ \E c \in 1..MaxCategories : MemGetCategoryListings(c)
    \/ \E c \in 1..MaxCategories : DbGetCategoryListings(c)

SpecCatListings == Init /\ [][NextCatListings]_vars

\* Categories, their associations and the order the category queries return
\* them in; each call runs to completion before the next starts.
NextCatSorted ==
    \/ \E d \in OneUser : MemCreateUser(d, 1)
    \/ \E d \in OneUser : DbCreateUser(d, 1)
    \/ \E d \in OwnedListings : MemCreateListing(d)
    \/ \E d \in OwnedListings : DbCreateListing(d)
    \/ \E d \in BasicCategories : MemCreateCategory(d)
    \/ \E d \in BasicCategories : DbCreateCategory(d)
    \/ \E id \in 1..MaxCategories : MemDeleteCategory(id)
    \/ \E id \in 1..MaxCategories : DbDeleteCategory(id)
    \/ \E l \in 1..MaxListings, c \in 1..MaxCategories : MemAddCategoryToListing(l, c)
    \/ \E l \in 1..MaxListings, c \in 1..MaxCategories : DbAddCategoryToListing(l, c)
    \/ MemGetAllCategories
    \/ DbGetAllCategories
    \/ \E l \in 1..MaxListings : MemGetListingCategories(l)
    \/ \E l \in 1..MaxListings : DbGetListingCategories(l)

SpecCatSorted == Init /\ [][NextCatSorted]_vars

\* Updates of several fields of a listing, with the statements of
\* DbStorage.updateListing interleaved with the reads and deletes of other
\* calls (MemStorage.updateListing has no await and runs as one step).
NextUpdateRace ==
    \/ \E d \in OneUser : MemCreateUser(d, 1)
    \/ \E d \in OneUser : DbCreateUser(d, 1)
    \/ \E d \in DescribedListings : MemCreateListing(d)
    \/ \E d \in DescribedListings : DbCreateListing(d)
    \/ \E id \in 1..MaxListings : MemDeleteListing(id)
    \/ \E id \in 1..MaxListings : DbDeleteListing(id)
    \/ \E id \in 1..MaxListings : MemGetListing(id)
    \/ \E id \in 1..MaxListings : DbGetListing(id)
    \/ \E id \in 1..MaxListings, upd \in SeveralFieldUpdates : MemUpdateListing(id, upd)
    \/ \E id \in 1..MaxListings, upd \in SeveralFieldUpdates : DbUpdateListingGet(id, upd)
    \/ \E p \in 1..MaxCalls : DbUpdateListingStatement(p)
    \/ \E p \in 1..MaxCalls : DbUpdateListingReread(p)

SpecUpdateRace == Init /\ [][NextUpdateRace]_vars

\* Creates and deletes of every entity type, with the await of
\* MemStorage.createUser interleaved with the other calls.
NextIds ==
    \/ \E d \in OneUser : MemCreateUserDraw(d)
    \/ \E p \in 1..MaxCalls : MemCreateUserWrite(p, 1)
    \/ \E d \in OneUser : DbCreateUser(d, 1)
    \/ \E d \in OwnedListings : MemCreateListing(d)
    \/ \E d \in OwnedListings : DbCreateListing(d)
    \/ \E id \in 1..MaxListings : MemDeleteListing(id)
    \/ \E id \in 1..MaxListings : DbDeleteListing(id)
    \/ \E d \in DescribedCategories : MemCreateCategory(d)
    \/ \E d \in DescribedCategories : DbCreateCategory(d)
    \/ \E id \in 1..MaxCategories : MemDeleteCategory(id)
    \/ \E id \in 1..MaxCategories : DbDeleteCategory(id)
    \/ \E l \in 1..MaxListings, c \in 1..MaxCategories : MemAddCategoryToListing(l, c)
    \/ \E l \in 1..MaxListings, c \in 1..MaxCategories : DbAddCategoryToListing(l, c)
    \/ \E u \in 1..MaxUsers, l \in 1..MaxListings : MemAddFavorite(u, l)
    \/ \E u \in 1..MaxUsers, l \in 1..MaxListings : DbAddFavorite(u, l)
    \/ \E u \in 1..MaxUsers, l \in 1..MaxListings : MemRemoveFavorite(u, l)
    \/ \E u \in 1..MaxUsers, l \in 1..MaxListings : DbRemoveFavorite(u, l)

SpecIds == Init /\ [][NextIds]_vars

\* Associations and categories removed from a store that also holds users,
\* listings and favorites; each call runs to completion before the next
\* starts.
NextRemovals ==
    \/ \E d \in OneUser : MemCreateUser(d, 1)
    \/ \E d \in OneUser : DbCreateUser(d, 1)
    \/ \E d \in OwnedListings : MemCreateListing(d)
    \/ \E d \in OwnedListings : DbCreateListing(d)
    \/ \E d \in BasicCategories : MemCreateCategory(d)
    \/ \E d \in BasicCategories : DbCreateCategory(d)
    \/ \E u \in 1..MaxUsers, l \in 1..MaxListings : MemAddFavorite(u, l)
    \/ \E u \in 1..MaxUsers, l \in 1..MaxListings : DbAddFavorite(u, l)
    \/ \E l \in 1..MaxListings, c \in 1..MaxCategories : MemAddCategoryToListing(l, c)
    \/ \E l \in 1..MaxListings, c \in 1..MaxCategories : DbAddCategoryToListing(l, c)
    \/ \E l \in 1..MaxListings, c \in 1..MaxCategories : MemRemoveCategoryFromListing(l, c)
    \/ \E l \in 1..MaxListings, c \in 1..MaxCategories : DbRemoveCategoryFromListing(l, c)
    \/ \E id \in 1..MaxCategories : MemDeleteCategory(id)
    \/ \E id \in 1..MaxCategories : DbDeleteCategory(id)

SpecRemovals == Init /\ [][NextRemovals]_vars

\* ================================================================= claims
\* C1: after deleteListing(l) returns true, no favorite and no association
\* row references l, isFavorite(u, l) is false for every user and
\* getUserFavorites(u) does not include l.
C1_DeleteListingCascades ==
    (last.op = "deleteListing" /\ last.ret = 1) =>
        /\ \A f \in DOMAIN favorites : favorites[f].listingId # last.a
        /\ \A p \in listingCategories : p[1] # last.a
        /\ \A u \in 1..MaxUsers :
              ~isFavorite(u, last.a) /\ last.a \notin getUserFavoritesIds(u)

\* C2: every association row references a listing that exists and a
\* category that exists.
C2_AssociationsReferenceExisting ==
    \A p \in listingCategories :
        p[1] \in DOMAIN listings /\ p[2] \in DOMAIN categories

\* C3: addFavorite(u, l) called twice in a row for an existing user and an
\* existing listing returns the same favorite id both times and leaves
\* exactly one favorite row for the pair.
C3_AddFavoriteIdempotent ==
    [][(/\ last.op = "addFavorite"
        /\ last.a \in DOMAIN users
        /\ last.b \in DOMAIN listings
        /\ last'.op = "addFavorite"
        /\ last'.a = last.a
        /\ last'.b = last.b)
       => (/\ ~last.err
           /\ ~last'.err
           /\ last'.ret = last.ret
           /\ Cardinality({f \in DOMAIN favorites' :
                  favorites'[f].userId = last.a /\ favorites'[f].listingId = last.b}) = 1)]_vars
\* the second of two addFavorite calls in a row has returned a favorite
C3_Witness ==
    /\ last.op = "addFavorite"
    /\ last.rep
    /\ ~last.err
    /\ last.ret \in DOMAIN favorites

\* C4: there is at most one favorite row per (userId, listingId) pair, under
\* any interleaving of addFavorite and removeFavorite calls.
C4_FavoritesUnique ==
    \A f \in DOMAIN favorites, g \in DOMAIN favorites :
        (favorites[f].userId = favorites[g].userId
            /\ favorites[f].listingId = favorites[g].listingId) => f = g
\* two addFavorite calls for one pair overlapped: the INSERT of the second
\* was refused while the row of the first is stored
C4_Witness ==
    /\ backend = "db"
    /\ last.op = "addFavorite"
    /\ last.err
    /\ FindFavorite(last.a, last.b) # 0

\* C5: an addFavorite(u, l) that completes while a favorite for (u, l) is
\* stored (it existed, or another in-flight call created it) succeeds and
\* returns that record.
C5_ReAddNeverErrors ==
    (last.op = "addFavorite" /\ FindFavorite(last.a, last.b) # 0) =>
        (~last.err /\ last.ret = FindFavorite(last.a, last.b))

\* C6: after deleteCategory(c) returns true, no association row has
\* categoryId = c and getListingCategories(l) contains c for no listing l.
C6_DeleteCategoryCascades ==
    (last.op = "deleteCategory" /\ last.ret = 1) =>
        /\ \A p \in listingCategories : p[2] # last.a
        /\ \A l \in 1..MaxListings : last.a \notin getListingCategoriesIds(l)
\* a category that had association rows has been deleted
C6_Witness ==
    /\ last.op = "deleteCategory"
    /\ last.ret = 1
    /\ last.dep > 0

\* C9: the userId of every stored listing is the id of an existing user.
C9_ListingOwnerExists ==
    \A l \in DOMAIN listings : listings[l].userId \in DOMAIN users

\* C7: no two categories share a name, after any createCategory or
\* updateCategory and after the routes that create or rename a category.
C7_CategoryNamesUnique ==
    \A c1, c2 \in DOMAIN categories :
        categories[c1].name = categories[c2].name => c1 = c2

\* C8: no two users share an email and no two users share a username, after
\* any createUser or updateUser and after the register route.
C8_UserIdentitiesUnique ==
    \A u1, u2 \in DOMAIN users :
        (users[u1].email = users[u2].email \/ users[u1].username = users[u2].username)
            => u1 = u2

\* the password is the one the user's stored hash was derived from
PasswordMatches(u, password) ==
    \E salt \in Salts : users[u].passwordHash = hash(password, salt)

AddFavoriteMissingReference ==
    /\ last'.op = "addFavorite"
    /\ FindFavorite(last'.a, last'.b) = 0
    /\ (last'.a \notin DOMAIN users \/ last'.b \notin DOMAIN listings)

\* C11 as stated: such an addFavorite fails, creates no favorite, and leaves
\* the favorite id counter and all other state unchanged.
C11_MissingReferenceChangesNothing ==
    [][AddFavoriteMissingReference
       => (/\ last'.err
           /\ favorites' = favorites
           /\ favoriteCurrentId' = favoriteCurrentId
           /\ UNCHANGED <<listings, categories, users, listingCategories,
                          listingCurrentId, categoryCurrentId, userCurrentId>>)]_vars

\* C11, amended: such an addFavorite fails, creates no favorite and leaves
\* every stored record and every other counter unchanged; the next favorite
\* id is unchanged in MemStorage, while in DbStorage the failed INSERT has
\* drawn one value from the id sequence.
C11_MissingReferenceFails ==
    [][AddFavoriteMissingReference
       => (/\ last'.err
           /\ favorites' = favorites
           /\ favoriteCurrentId' = IF backend = "db" THEN favoriteCurrentId + 1
                                   ELSE favoriteCurrentId
           /\ UNCHANGED <<listings, categories, users, listingCategories,
                          listingCurrentId, categoryCurrentId, userCurrentId>>)]_vars
\* DbStorage.addFavorite has failed for a pair without a favorite whose user
\* or listing does not exist
C11_Witness ==
    /\ backend = "db"
    /\ last.op = "addFavorite"
    /\ last.err
    /\ FindFavorite(last.a, last.b) = 0
    /\ (last.a \notin DOMAIN users \/ last.b \notin DOMAIN listings)

\* C12: createListing called without a userId fails with an error and
\* creates no listing: the listings and the next listing id are as before
\* the call.
C12_CreateListingNeedsOwner ==
    [][(last'.op = "createListing" /\ last'.a <= 0)
       => (/\ last'.err
           /\ listings' = listings
           /\ listingCurrentId' = listingCurrentId)]_vars
\* createListing without a userId has failed on a store that holds a listing
C12_Witness ==
    /\ last.op = "createListing"
    /\ last.a = 0
    /\ last.err
    /\ DOMAIN listings # {}

\* C13: addCategoryToListing(l, c) in a state where the pair is already
\* associated creates no row and raises no error, and two calls in a row for
\* an existing listing and category raise no error and leave the pair
\* associated once.
C13_AddCategoryIdempotent ==
    [][/\ (last'.op = "addCategoryToListing"
             /\ <<last'.a, last'.b>> \in listingCategories)
          => (~last'.err /\ listingCategories' = listingCategories)
       /\ (/\ last.op = "addCategoryToListing"
           /\ last.a \in DOMAIN listings
           /\ last.b \in DOMAIN categories
           /\ last'.op = "addCategoryToListing"
           /\ last'.a = last.a
           /\ last'.b = last.b)
          => (/\ ~last.err
              /\ ~last'.err
              /\ listingCategories' = listingCategories
              /\ Cardinality({p \in listingCategories' :
                                p = <<last.a, last.b>>}) = 1)]_vars
\* the second of two addCategoryToListing calls in a row has returned with
\* the pair associated
C13_Witness ==
    /\ last.op = "addCategoryToListing"
    /\ last.rep
    /\ ~last.err
    /\ <<last.a, last.b>> \in listingCategories

\* C14: addCategoryToListing(l, c) where listing l or category c does not
\* exist raises no error and creates no association row, in both backends.
C14_AddCategoryMissingIsNoOp ==
    [][(/\ last'.op = "addCategoryToListing"
        /\ (last'.a \notin DOMAIN listings \/ last'.b \notin DOMAIN categories))
       => (~last'.err /\ listingCategories' = listingCategories)]_vars

\* C15: removeFavorite(u, l) returns false and changes nothing when no
\* favorite for (u, l) exists; when one exists it returns true and removes
\* it, so that isFavorite(u, l) is false afterwards.
C15_RemoveFavorite ==
    [][(last'.op = "removeFavorite")
       => /\ ~last'.err
          /\ UNCHANGED <<listings, categories, users, listingCategories,
                         listingCurrentId, categoryCurrentId, userCurrentId,
                         favoriteCurrentId>>
          /\ IF isFavorite(last'.a, last'.b)
             THEN /\ last'.ret = 1
                  /\ ~\E f \in DOMAIN favorites' :
                        /\ favorites'[f].userId = last'.a
                        /\ favorites'[f].listingId = last'.b
                  /\ \A f \in DOMAIN favorites :
                        (favorites[f].userId # last'.a \/ favorites[f].listingId # last'.b)
                           => (f \in DOMAIN favorites' /\ favorites'[f] = favorites[f])
             ELSE /\ last'.ret = 0
                  /\ favorites' = favorites]_vars
\* removeFavorite has returned true while the user keeps another favorite
C15_Witness ==
    /\ last.op = "removeFavorite"
    /\ last.ret = 1
    /\ ~isFavorite(last.a, last.b)
    /\ \E f \in DOMAIN favorites : favorites[f].userId = last.a

\* the value of a field after an update that supplied v (undefined: not
\* supplied) to a record that held old
Applied(v, old) == IF v = UNDEF THEN old ELSE v

\* C16: updateListing, updateCategory and updateUser on an existing record
\* apply every supplied field, whatever its value (a null or empty one too),
\* keep every field not supplied, never change id or createdAt, and with no
\* field supplied return the record and leave the store unchanged.
C16_PartialUpdateFieldGranular ==
    [][/\ (last'.op = "updateListing" /\ last'.a \in DOMAIN listings)
          => LET id == last'.a
                 old == listings[id]
             IN /\ ~last'.err
                /\ last'.ret = id
                /\ listings' = Put(listings, id,
                      [id |-> old.id,
                       title |-> Applied(last'.upd[1], old.title),
                       description |-> Applied(last'.upd[2], old.description),
                       items |-> old.items,
                       createdAt |-> old.createdAt,
                       userId |-> IF last'.b = NoId THEN old.userId ELSE last'.b])
       /\ (last'.op = "updateCategory" /\ last'.a \in DOMAIN categories)
          => LET id == last'.a
                 old == categories[id]
             IN /\ ~last'.err
                /\ last'.ret = id
                /\ categories' = Put(categories, id,
                      [id |-> old.id,
                       name |-> Applied(last'.upd[1], old.name),
                       description |-> Applied(last'.upd[2], old.description),
                       createdAt |-> old.createdAt])
       /\ (last'.op = "updateUser" /\ last'.a \in DOMAIN users)
          => LET id == last'.a
                 old == users[id]
             IN /\ ~last'.err
                /\ last'.ret = id
                /\ \E salt \in Salts :
                     users' = Put(users, id,
                        [old EXCEPT
                           !.email = Applied(last'.upd[1], old.email),
                           !.username = Applied(last'.upd[2], old.username),
                           !.passwordHash = IF last'.upd[3] = UNDEF THEN old.passwordHash
                                            ELSE hash(last'.upd[3], salt),
                           !.firstName = Applied(last'.upd[4], old.firstName)])]_vars

\* C17: a user's verified flag is false when the user is created, and a step
\* changes it only by a verifyUser of that user's email setting it; an
\* updateUser overlapping the verifyUser does not change it, so after a
\* verifyUser that returned true the stored flag is, and stays, true.
C17_VerifiedOnlyByVerifyUser ==
    [][/\ \A u \in (DOMAIN users') \ (DOMAIN users) : ~users'[u].isVerified
       /\ \A u \in DOMAIN users :
             users'[u].isVerified # users[u].isVerified
                => (/\ users'[u].isVerified
                    /\ last'.op = "verifyUser"
                    /\ last'.s = users[u].email)
       /\ (last'.op = "verifyUser" /\ last'.ret = 1)
             => (last'.a \in DOMAIN users' /\ users'[last'.a].isVerified)]_vars

\* C18: verifyUser(email) returns true exactly when a user has that email,
\* and then the stored user that getUserByEmail and getUserById read has its
\* verified flag set; when no user has the email it returns false and
\* changes no user.
C18_VerifyUser ==
    [][(last'.op = "verifyUser")
       => /\ ~last'.err
          /\ last'.ret = Bool(\E u \in DOMAIN users : users[u].email = last'.s)
          /\ IF last'.ret = 1
             THEN /\ last'.a = getUserByEmail(last'.s)
                  /\ users'[last'.a].isVerified
                  /\ \A u \in DOMAIN users :
                        \/ users'[u] = users[u]
                        \/ (/\ users[u].email = last'.s
                            /\ users'[u] = [users[u] EXCEPT !.isVerified = TRUE])
             ELSE users' = users
          /\ DOMAIN users' = DOMAIN users]_vars
\* verifyUser has returned true for a user that was not verified before, on
\* a store that holds another user
C18_Witness ==
    /\ last.op = "verifyUser"
    /\ last.ret = 1
    /\ ~last.rep
    /\ users[last.a].isVerified
    /\ \E u \in DOMAIN users : ~users[u].isVerified

\* C19: MemStorage and DbStorage are equivalent. Both start from the same
\* empty store, so they are equivalent exactly when every call DbStorage
\* completes is, from the same store and with the same arguments, the step
\* MemStorage takes: the same returned value or failure and the same rows
\* and counters afterwards.
C19_BackendsEquivalent ==
    [][/\ \A d \in OneUser : DbCreateUser(d, 1) => MemCreateUserEffect(d, 1)
       /\ \A d \in OwnedListings : DbCreateListing(d) => MemCreateListingEffect(d)
       /\ \A id \in 1..MaxListings : DbDeleteListing(id) => MemDeleteListingEffect(id)
       /\ \A d \in BasicCategories : DbCreateCategory(d) => MemCreateCategoryEffect(d)
       /\ \A id \in 1..MaxCategories : DbDeleteCategory(id) => MemDeleteCategoryEffect(id)
       /\ \A l \in 1..MaxListings, c \in 1..MaxCategories :
             DbAddCategoryToListing(l, c) => MemAddCategoryToListingEffect(l, c)
       /\ \A l \in 1..MaxListings, c \in 1..MaxCategories :
             DbRemoveCategoryFromListing(l, c)
                => MemRemoveCategoryFromListingEffect(l, c)]_vars

\* when user u favorited listing l
FavoritedAt(u, l) == favorites[FindFavorite(u, l)].createdAt

\* C20: getUserFavorites(u) returns exactly the existing listings u has
\* favorited, each once, the more recently favorited before the less
\* recently favorited.
C20_FavoritesNewestFirst ==
    (last.op = "getUserFavorites") =>
        /\ ~last.err
        /\ {last.list[i] : i \in 1..Len(last.list)} = getUserFavoritesIds(last.a)
        /\ Len(last.list) = Cardinality(getUserFavoritesIds(last.a))
        /\ \A i, j \in 1..Len(last.list) :
              i < j => FavoritedAt(last.a, last.list[i]) >= FavoritedAt(last.a, last.list[j])

\* C21: a read, update or delete of an id that does not exist raises
\* nothing and returns the absence value (undefined for getListing,
\* getCategory, getUserById, updateListing, updateCategory and updateUser,
\* false for deleteListing and deleteCategory), no record is created and the
\* store is unchanged.
C21_MissingIdIsAbsence ==
    [][/\ (/\ last'.op \in {"getListing", "updateListing", "deleteListing"}
           /\ last'.a \notin DOMAIN listings)
          => (~last'.err /\ last'.ret = 0 /\ last'.rec = NoRecord /\ UNCHANGED store)
       /\ (/\ last'.op \in {"getCategory", "updateCategory", "deleteCategory"}
           /\ last'.a \notin DOMAIN categories)
          => (~last'.err /\ last'.ret = 0 /\ last'.rec = NoRecord /\ UNCHANGED store)
       /\ (/\ last'.op \in {"getUserById", "updateUser"}
           /\ last'.a \notin DOMAIN users)
          => (~last'.err /\ last'.ret = 0 /\ last'.rec = NoRecord /\ UNCHANGED store)]_vars
\* updateListing of an id that does not exist has returned undefined on a
\* store that holds another listing
C21_Witness ==
    /\ last.op = "updateListing"
    /\ last.a \notin DOMAIN listings
    /\ last.ret = 0
    /\ ~last.err
    /\ DOMAIN listings # {}

\* what validatePassword(email, password) returns when the stored users are
\* us: the id of the user, 0 for null
ValidatePasswordResult(us, email, password) ==
    LET m == {u \in DOMAIN us : us[u].email = email}
        user == IF m = {} THEN 0 ELSE Min(m)
    IN IF user = 0 THEN 0
       ELSE IF ~compare(password, us[user].passwordHash) THEN 0
       ELSE user

\* C22: after updateUser(id, {password: p2}) on an existing user,
\* validatePassword with the user's email returns that user for p2 and null
\* for every other password; an updateUser that supplies no password leaves
\* the stored hash as it was.
C22_PasswordRehashed ==
    [][(last'.op = "updateUser" /\ last'.a \in DOMAIN users)
       => IF last'.upd[3] = UNDEF
          THEN users'[last'.a].passwordHash = users[last'.a].passwordHash
          ELSE /\ ValidatePasswordResult(users', users'[last'.a].email, last'.upd[3]) = last'.a
               /\ \A p1 \in Passwords \ {last'.upd[3]} :
                     ValidatePasswordResult(users', users'[last'.a].email, p1) = 0]_vars

\* C23: a getListing(id) that directly follows the createListing (with a
\* userId and a non-empty item list) that returned id returns a listing of
\* that id whose items, userId and createdAt are those of the record
\* createListing returned.
C23_CreateThenGet ==
    [][(/\ last.op = "createListing"
        /\ ~last.err
        /\ last'.op = "getListing"
        /\ last'.a = last.ret)
       => (/\ ~last'.err
           /\ last'.ret = last.ret
           /\ last'.rec.id = last.ret
           /\ last'.rec.items = last.rec.items
           /\ last'.rec.userId = last.rec.userId
           /\ last'.rec.createdAt = last.rec.createdAt)]_vars
\* getListing has returned, right after its createListing, a listing of two
\* items created after the clock advanced
C23_Witness ==
    /\ last.op = "getListing"
    /\ last.fresh
    /\ last.ret \in DOMAIN listings
    /\ Len(last.rec.items) = 2
    /\ last.rec.createdAt > 0

\* C24: getCategoryListings(c) returns exactly the existing listings
\* associated with category c, each once, a listing created later before a
\* listing created earlier.
C24_CategoryListingsNewestFirst ==
    (last.op = "getCategoryListings") =>
        /\ ~last.err
        /\ {last.list[i] : i \in 1..Len(last.list)} = getCategoryListingsIds(last.a)
        /\ Len(last.list) = Cardinality(getCategoryListingsIds(last.a))
        /\ \A i, j \in 1..Len(last.list) :
              i < j => listings[last.list[i]].createdAt >= listings[last.list[j]].createdAt
\* getCategoryListings has returned two listings, the one created later
\* first
C24_Witness ==
    /\ last.op = "getCategoryListings"
    /\ Len(last.list) = 2
    /\ listings[last.list[1]].createdAt > listings[last.list[2]].createdAt

\* C25: getAllCategories returns every category and getListingCategories(l)
\* exactly the categories associated with listing l, each once and in
\* ascending order of name.
C25_CategoriesSortedByName ==
    /\ (last.op = "getAllCategories") =>
          /\ ~last.err
          /\ {last.list[i] : i \in 1..Len(last.list)} = DOMAIN categories
          /\ Len(last.list) = Cardinality(DOMAIN categories)
          /\ \A i, j \in 1..Len(last.list) :
                i < j => NameRank(categories[last.list[i]].name)
                           <= NameRank(categories[last.list[j]].name)
    /\ (last.op = "getListingCategories") =>
          /\ ~last.err
          /\ {last.list[i] : i \in 1..Len(last.list)} = getListingCategoriesIds(last.a)
          /\ Len(last.list) = Cardinality(getListingCategoriesIds(last.a))
          /\ \A i, j \in 1..Len(last.list) :
                i < j => NameRank(categories[last.list[i]].name)
                           <= NameRank(categories[last.list[j]].name)
\* getListingCategories has returned two categories of different names, the
\* one created later first
C25_Witness ==
    /\ last.op = "getListingCategories"
    /\ Len(last.list) = 2
    /\ last.list[1] > last.list[2]
    /\ categories[last.list[1]].name # categories[last.list[2]].name

\* the listing r holds the new value of every field the handler h was
\* given, or of none of them the value the handler's read found
AllOrNothing(h, r) ==
    \/ /\ h.upd[1] # UNDEF => r.title = h.upd[1]
       /\ h.upd[2] # UNDEF => r.description = h.upd[2]
       /\ h.b # NoId => r.userId = h.b
    \/ /\ h.upd[1] # UNDEF => r.title = h.rec.title
       /\ h.upd[2] # UNDEF => r.description = h.rec.description
       /\ h.b # NoId => r.userId = h.rec.userId

\* C26: an update of several fields is atomic: while an updateListing is in
\* progress, and when it fails, the stored listing holds the new value of
\* every supplied field or of none, never of some.
C26_UpdateAtomic ==
    [][\A p \in 1..MaxCalls :
          (calls[p].op = "updateListing" /\ calls[p].a \in DOMAIN listings')
             => AllOrNothing(calls[p], listings'[calls[p].a])]_vars

\* C30: no step of an updateListing adds a listing, and an updateListing
\* whose final re-read comes after the listing was deleted returns undefined
\* and no listing.
C30_UpdateNeverResurrects ==
    [][\A p \in 1..MaxCalls :
          /\ (calls[p].op = "updateListing" /\ calls'[p] # calls[p])
                => DOMAIN listings' = DOMAIN listings
          /\ (/\ calls[p].op = "updateListing"
              /\ calls'[p] = Idle
              /\ calls[p].a \notin DOMAIN listings)
                => (/\ last'.op = "updateListing"
                    /\ last'.a = calls[p].a
                    /\ last'.ret = 0
                    /\ last'.rec = NoRecord
                    /\ calls[p].a \notin DOMAIN listings')]_vars
\* an updateListing that had found its listing has returned undefined: the
\* listing was deleted while it ran
C30_Witness ==
    /\ last.op = "updateListing"
    /\ last.dep = 1
    /\ last.ret = 0
    /\ ~last.err
    /\ last.a \notin DOMAIN listings

\* C27: a MemStorage call is atomic: when an updateUser that was given only
\* a password writes, the stored user is the one it read, so its write
\* changes the password hash and nothing that another call stored since.
C27_MemCallsAtomic ==
    [][\A p \in 1..MaxCalls :
          (/\ backend = "mem"
           /\ calls[p].op = "updateUser"
           /\ calls'[p] = Idle
           /\ calls[p].a \in DOMAIN users
           /\ calls[p].upd[1] = UNDEF
           /\ calls[p].upd[2] = UNDEF
           /\ calls[p].upd[4] = UNDEF)
             => (/\ [users[calls[p].a] EXCEPT !.passwordHash = <<0, 0>>]
                      = [calls[p].rec EXCEPT !.passwordHash = <<0, 0>>]
                 /\ users' = [users EXCEPT
                       ![calls[p].a].passwordHash = users'[calls[p].a].passwordHash])]_vars

\* the ids a createUser in progress has drawn and not yet stored
DrawnUserIds == {calls[p].a : p \in {q \in 1..MaxCalls : calls[q].op = "createUser"}}

\* an id counter never goes back, a record is stored under its own id, and
\* an id below the counter that names no stored record names none after
\* the step
NeverReused(table, nextId) ==
    /\ nextId' >= nextId
    /\ \A id \in DOMAIN table' : table'[id].id = id /\ id < nextId'
    /\ \A id \in 1..(nextId - 1) : id \notin DOMAIN table => id \notin DOMAIN table'

\* C28: the ids of listings, categories, users and favorites are unique and
\* never reused, after deletes and with creates interleaved: an id that was
\* assigned and names no stored record names none later (a user id only the
\* user of the createUser that drew it), creates in progress hold different
\* ids, and a favorite or association row that names a deleted listing or
\* category never names a stored one again.
C28_IdsNeverReused ==
    [][/\ NeverReused(listings, listingCurrentId)
       /\ NeverReused(categories, categoryCurrentId)
       /\ NeverReused(favorites, favoriteCurrentId)
       /\ userCurrentId' >= userCurrentId
       /\ \A id \in DOMAIN users' : users'[id].id = id /\ id < userCurrentId'
       /\ \A id \in 1..(userCurrentId - 1) :
             (id \notin DOMAIN users /\ id \in DOMAIN users') => id \in DrawnUserIds
       /\ \A p \in 1..MaxCalls :
             (calls'[p].op = "createUser")
                => (/\ calls'[p].a \notin DOMAIN users'
                    /\ calls'[p].a < userCurrentId'
                    /\ \A q \in 1..MaxCalls :
                          (calls'[q].op = "createUser" /\ p # q)
                             => calls'[p].a # calls'[q].a)
       /\ \A f \in (DOMAIN favorites) \cap (DOMAIN favorites') :
             /\ favorites'[f].listingId = favorites[f].listingId
             /\ favorites[f].listingId \notin DOMAIN listings
                   => favorites'[f].listingId \notin DOMAIN listings'
       /\ \A r \in listingCategories \cap listingCategories' :
             /\ r[1] \notin DOMAIN listings => r[1] \notin DOMAIN listings'
             /\ r[2] \notin DOMAIN categories => r[2] \notin DOMAIN categories']_vars
\* a listing has been created while a favorite names a listing deleted
\* before: the new listing has another id
C28_Witness ==
    /\ last.op = "createListing"
    /\ ~last.err
    /\ last.ret \in DOMAIN listings
    /\ \E f \in DOMAIN favorites :
          /\ favorites[f].listingId \notin DOMAIN listings
          /\ favorites[f].listingId < last.ret

\* C29: removeCategoryFromListing(l, c) raises nothing and removes the pair
\* (l, c) and no other row (nothing when the pair is absent);
\* deleteCategory(c) raises nothing and removes category c and the
\* association rows of c and nothing else; both leave every listing, user
\* and favorite, every other category and association row, and the id
\* counters as they were.
C29_RemovalsTouchOnlyTarget ==
    [][/\ (last'.op = "removeCategoryFromListing")
          => /\ ~last'.err
             /\ listingCategories' = listingCategories \ {<<last'.a, last'.b>>}
             /\ UNCHANGED <<listings, categories, users, favorites, listingCurrentId,
                            categoryCurrentId, userCurrentId, favoriteCurrentId>>
       /\ (last'.op = "deleteCategory")
          => /\ ~last'.err
             /\ last'.ret = Bool(last'.a \in DOMAIN categories)
             /\ DOMAIN categories' = (DOMAIN categories) \ {last'.a}
             /\ \A c \in DOMAIN categories' : categories'[c] = categories[c]
             /\ listingCategories' =
                   IF last'.a \in DOMAIN categories
                   THEN {r \in listingCategories : r[2] # last'.a}
                   ELSE listingCategories
             /\ UNCHANGED <<listings, users, favorites, listingCurrentId,
                            categoryCurrentId, userCurrentId, favoriteCurrentId>>]_vars
\* removeCategoryFromListing has removed a pair from a listing that keeps
\* its association with another category, on a store that holds a favorite
C29_Witness ==
    /\ last.op = "removeCategoryFromListing"
    /\ ~last.err
    /\ ~last.rep
    /\ <<last.a, last.b>> \notin listingCategories
    /\ \E r \in listingCategories : r[1] = last.a
    /\ DOMAIN favorites # {}

====
